---- MODULE Spec2Model ----
(***************************************************************************)
(* A model of the smart-unicom/oss object-storage abstraction: the path    *)
(* normalizers of the backends, the backends' Put / Get / Delete / List    *)
(* against their vendor stores, and the properties the contract states.    *)
(*                                                                         *)
(* Paths, keys and URLs are TLA+ strings; Len, SubSeq and \o act on them   *)
(* as on Go strings (1-based here, 0-based in Go).  The strings the model  *)
(* draws hold no '%', '@', '[', ']', '#', '?', blanks or control bytes,    *)
(* so url.Parse's unescaping, userinfo and IPv6 branches are not entered.  *)
(***************************************************************************)
EXTENDS Integers, Sequences, FiniteSets, TLC

VARIABLES
    nkind,      \* SpecNorm: which backend's normalizer is applied
    ncfg,       \* SpecNorm: the backend Config fields the normalizer reads
    nshape,     \* SpecNorm: the shape the input was built in
    nhost,      \* SpecNorm: the endpoint host of the input (URL shapes)
    ntail,      \* SpecNorm: the key part of the input
    nin,        \* SpecNorm: the input string handed to the normalizer
    nout        \* SpecNorm: the results of applying the normalizer 1, 2 times

normVars == <<nkind, ncfg, nshape, nhost, ntail, nin, nout>>

VARIABLES
    backend,    \* Spec: the backend the caller constructed
    Config,     \* Spec: its Config
    store,      \* Spec: the vendor's objects (filesystem: the files), key -> bytes
    dirs,       \* Spec: filesystem only, the directories that exist
    last        \* Spec: the last contract call, its arguments and what it returned

opVars == <<backend, Config, store, dirs, last>>

VARIABLES
    pkind,      \* SpecPage: the backend whose List is called
    pstored,    \* SpecPage: how many objects the bucket holds under the prefix
    plisted     \* SpecPage: <<>>, or the objects the last List returned

pageVars == <<pkind, pstored, plisted>>

VARIABLES
    ukind,      \* SpecURL: the backend the caller constructed
    uopts,      \* SpecURL: the Config the caller handed to New
    ucfg,       \* SpecURL: the client's Config after New
    ucall       \* SpecURL: the last GetURL or GetEndpoint call and its result

urlVars == <<ukind, uopts, ucfg, ucall>>

VARIABLES
    gkind,      \* SpecGet: the backend
    gname,      \* SpecGet: the file the key names at the vendor, 0 if none
    gfiles,     \* SpecGet: the bytes of every file, the vendor's and /tmp's
    gtemps,     \* SpecGet: the files that are in /tmp
    gcalls      \* SpecGet: per caller, how far its Get is and what it returned

getVars == <<gkind, gname, gfiles, gtemps, gcalls>>

VARIABLES
    wkind,      \* SpecPut: the backend
    wfile,      \* SpecPut: <<bytes>> stored at the key, <<>> if none
    wput,       \* SpecPut: per writer, how far its Put is
    wseen       \* SpecPut: what readers found at the key, newest last

putVars == <<wkind, wfile, wput, wseen>>

VARIABLES
    okind,      \* SpecObject: the backend
    ocfg,       \* SpecObject: its Config
    ostore,     \* SpecObject: what the vendor stores
    odirs,      \* SpecObject: the directories of the filesystem backend
    oheld,      \* SpecObject: <<the Object the caller holds>>, <<>> if none
    ocall       \* SpecObject: the last call and its result

objVars == <<okind, ocfg, ostore, odirs, oheld, ocall>>

VARIABLES
    ckind,      \* SpecClient: the backend
    client,     \* SpecClient: the fields of the client that New returned
    ccalls,     \* SpecClient: per caller, the method it is in
    chist,      \* SpecClient: the policy last handed to SetPutPolicy, "" if none
    clast       \* SpecClient: the last call that returned and its result

cliVars == <<ckind, client, ccalls, chist, clast>>

VARIABLES
    bcfg,       \* SpecBatch: the Config of the s3 client
    bstore,     \* SpecBatch: what the bucket stores
    bcall       \* SpecBatch: the last call and its result

batchVars == <<bcfg, bstore, bcall>>

VARIABLES
    fstore,     \* SpecFS: the files of the machine, by path
    fdirs,      \* SpecFS: its directories
    fcall       \* SpecFS: the last call and its result

fsVars == <<fstore, fdirs, fcall>>

moreVars == <<objVars, cliVars, batchVars, fsVars>>

\* the variables of the specifications other than SpecNorm, Spec, SpecPage
auxVars == <<urlVars, getVars, putVars, moreVars>>

\* SpecURL is not running
URLIdle == ukind = "" /\ uopts = <<>> /\ ucfg = <<>> /\ ucall = <<>>

\* SpecGet is not running
GetIdle == gkind = "" /\ gname = 0 /\ gfiles = <<>> /\ gtemps = {} /\ gcalls = <<>>

\* SpecPut is not running
PutIdle == wkind = "" /\ wfile = <<>> /\ wput = <<>> /\ wseen = <<>>

\* SpecObject is not running
ObjIdle ==
    /\ okind = "" /\ ocfg = <<>> /\ ostore = <<>> /\ odirs = {}
    /\ oheld = <<>> /\ ocall = <<>>

\* SpecClient is not running
CliIdle == ckind = "" /\ client = <<>> /\ ccalls = <<>> /\ chist = "" /\ clast = <<>>

\* SpecBatch is not running
BatchIdle == bcfg = <<>> /\ bstore = <<>> /\ bcall = <<>>

\* SpecFS is not running
FSIdle == fstore = <<>> /\ fdirs = {} /\ fcall = <<>>

MoreIdle == ObjIdle /\ CliIdle /\ BatchIdle /\ FSIdle

AuxIdle == URLIdle /\ GetIdle /\ PutIdle /\ MoreIdle

\* SpecNorm, Spec and SpecPage are not running
CoreIdle ==
    /\ backend = "" /\ Config = <<>> /\ store = <<>> /\ dirs = {} /\ last = <<>>
    /\ nkind = "" /\ ncfg = <<>> /\ nshape = "" /\ nhost = "" /\ ntail = ""
    /\ nin = "" /\ nout = <<>>
    /\ pkind = "" /\ pstored = 0 /\ plisted = <<>>

(***************************************************************************)
(* Bounds of the model.                                                    *)
(***************************************************************************)
MaxTailLen == 3

(***************************************************************************)
(* Go package strings.                                                     *)
(***************************************************************************)
Char(s, i) == SubSeq(s, i, i)

strings_HasPrefix(s, prefix) ==
    Len(prefix) <= Len(s) /\ SubSeq(s, 1, Len(prefix)) = prefix

strings_HasSuffix(s, suffix) ==
    Len(suffix) <= Len(s) /\ SubSeq(s, Len(s) - Len(suffix) + 1, Len(s)) = suffix

strings_TrimPrefix(s, prefix) ==
    IF strings_HasPrefix(s, prefix) THEN SubSeq(s, Len(prefix) + 1, Len(s)) ELSE s

\* strings.Index for a one-byte needle, 1-based; 0 when absent
RECURSIVE IndexFrom(_, _, _)
IndexFrom(s, c, i) ==
    IF i > Len(s) THEN 0
    ELSE IF Char(s, i) = c THEN i
    ELSE IndexFrom(s, c, i + 1)

strings_Index(s, c) == IndexFrom(s, c, 1)

RECURSIVE LastIndexFrom(_, _, _)
LastIndexFrom(s, c, i) ==
    IF i < 1 THEN 0
    ELSE IF Char(s, i) = c THEN i
    ELSE LastIndexFrom(s, c, i - 1)

strings_LastIndex(s, c) == LastIndexFrom(s, c, Len(s))

strings_Contains(s, sub) ==
    \E i \in 1..(Len(s) - Len(sub) + 1) : SubSeq(s, i, i + Len(sub) - 1) = sub

strings_Count(s, c) == Cardinality({i \in 1..Len(s) : Char(s, i) = c})

\* strings.Cut(s, sep) for a one-byte sep: the part before and the part after
CutBefore(s, c) ==
    LET i == strings_Index(s, c) IN IF i = 0 THEN s ELSE SubSeq(s, 1, i - 1)

CutAfter(s, c) ==
    LET i == strings_Index(s, c) IN IF i = 0 THEN "" ELSE SubSeq(s, i + 1, Len(s))

\* strings.Trim(s, "/")
RECURSIVE strings_TrimSlashes(_)
strings_TrimSlashes(s) ==
    IF s = "" THEN ""
    ELSE IF Char(s, 1) = "/" THEN strings_TrimSlashes(SubSeq(s, 2, Len(s)))
    ELSE IF Char(s, Len(s)) = "/" THEN strings_TrimSlashes(SubSeq(s, 1, Len(s) - 1))
    ELSE s

(***************************************************************************)
(* The paths the callers pass: a key given bare, with a leading slash, or  *)
(* as a URL on a host, with or without the bucket as first segment.        *)
(***************************************************************************)
\* the bucket name of the Configs drawn
BucketName == "b"

EndpointHost == "h.c"

HostShapes == {"https", "http", "schemeless", "httpsbucket"}
Shapes == {"bare", "slash", "bucket"} \cup HostShapes

\* the input of a shape: a bare key, a leading-slash key, a URL on the host,
\* and the path-style forms that carry the bucket as first path segment
Build(shape, host, tail) ==
    CASE shape = "bare"        -> tail
      [] shape = "slash"       -> "/" \o tail
      [] shape = "https"       -> "https://" \o host \o "/" \o tail
      [] shape = "http"        -> "http://" \o host \o "/" \o tail
      [] shape = "schemeless"  -> "//" \o host \o "/" \o tail
      [] shape = "bucket"      -> "/" \o BucketName \o "/" \o tail
      [] shape = "httpsbucket" -> "https://" \o host \o "/" \o BucketName \o "/" \o tail

\* the normalizer a backend applies to the paths it is given
Keys == {"d/a", "dx"}

KeyShapes == {"bare", "slash", "https"}

Prefixes == {"", "d", "d/", "/d/"}

\* every path a call of Spec is given
Inputs == {Build(shape, EndpointHost, key) : shape \in KeyShapes, key \in Keys}
              \cup Prefixes

\* the strings the calls of Spec hand to regexp, net/url and path/filepath:
\* the inputs and their ends, under the roots of the backends, and the
\* beginnings of those
Ends(s) == {SubSeq(s, i, Len(s)) : i \in 1..(Len(s) + 1)}

Beginnings(s) == {SubSeq(s, 1, i) : i \in 0..Len(s)}

KnownPaths == UNION {Ends(p) : p \in Inputs}

Roots == {"", "/", "/r/", "/s", "/s/"}

KnownFiles == UNION {Beginnings(root \o p) : root \in Roots, p \in KnownPaths}

(***************************************************************************)
(* Character classes.                                                      *)
(***************************************************************************)
Lower == {"a", "b", "c", "d", "e", "f", "g", "h", "i", "j", "k", "l", "m",
          "n", "o", "p", "q", "r", "s", "t", "u", "v", "w", "x", "y", "z"}
Upper == {"A", "B", "C", "D", "E", "F", "G", "H", "I", "J", "K", "L", "M",
          "N", "O", "P", "Q", "R", "S", "T", "U", "V", "W", "X", "Y", "Z"}
Digit == {"0", "1", "2", "3", "4", "5", "6", "7", "8", "9"}
Letter == Lower \cup Upper
\* the regexp class \w
WordChar == Letter \cup Digit \cup {"_"}

(***************************************************************************)
(* The URL pattern of the backends, regexp.MatchString (unanchored).       *)
(*   aliyun, azureblob, qiniu, s3:  (https?:)?//((\w+).)+(\w+)/            *)
(*   tencent:                       (https?:)?//((\\w+).)+(\w+)/           *)
(* In the tencent pattern the raw string holds an escaped backslash, so    *)
(* each group is a literal backslash, one or more letters w, any byte.     *)
(* The optional scheme group cannot change whether a match exists.         *)
(***************************************************************************)
\* the positions where a run c+ that starts at i may end
RECURSIVE RunEnd(_, _, _)
RunEnd(s, i, class) ==
    IF i > Len(s) THEN i - 1
    ELSE IF Char(s, i) \notin class THEN i - 1
    ELSE RunEnd(s, i + 1, class)

RunEnds(s, i, class) == i..RunEnd(s, i, class)

\* (\w+). from position i: the positions right after the group
WordGroup(s, i) ==
    {j + 2 : j \in {e \in RunEnds(s, i, WordChar) : e + 1 <= Len(s) /\ Char(s, e + 1) # "\n"}}

\* (\\w+). from position i: a backslash, a run of the letter w, any byte
BackslashGroup(s, i) ==
    IF i <= Len(s) /\ Char(s, i) = "\\"
    THEN {j + 2 : j \in {e \in RunEnds(s, i + 1, {"w"}) : e + 1 <= Len(s) /\ Char(s, e + 1) # "\n"}}
    ELSE {}

\* (\w+)/ from position i
WordThenSlash(s, i) ==
    \E j \in RunEnds(s, i, WordChar) : j + 1 <= Len(s) /\ Char(s, j + 1) = "/"

\* after one group has matched: more groups, then (\w+)/
RECURSIVE MoreGroups(_, _, _)
MoreGroups(s, i, backslash) ==
    \/ WordThenSlash(s, i)
    \/ \E n \in (IF backslash THEN BackslashGroup(s, i) ELSE WordGroup(s, i)) :
           MoreGroups(s, n, backslash)

MatchString(s, backslash) ==
    \E i \in 1..(Len(s) - 1) :
        /\ Char(s, i) = "/"
        /\ Char(s, i + 1) = "/"
        /\ \E n \in (IF backslash THEN BackslashGroup(s, i + 2) ELSE WordGroup(s, i + 2)) :
               MoreGroups(s, n, backslash)

\* MatchString, worked out once for the strings the calls of Spec pass
MatchTable == [s \in KnownPaths, backslash \in BOOLEAN |-> MatchString(s, backslash)]

MatchURL(s, backslash) ==
    IF s \in KnownPaths THEN MatchTable[s, backslash] ELSE MatchString(s, backslash)

aliyun_urlRegexp(s) == MatchURL(s, FALSE)
azureblob_urlRegexp(s) == MatchURL(s, FALSE)
qiniu_urlRegexp(s) == MatchURL(s, FALSE)
s3_urlRegexp(s) == MatchURL(s, FALSE)
tencent_urlRegexp(s) == MatchURL(s, TRUE)

(***************************************************************************)
(* Go package net/url: Parse, as far as the normalizers read its result    *)
(* (the error and URL.Path).                                               *)
(***************************************************************************)
ParseError == [err |-> TRUE, Scheme |-> "", Host |-> "", Path |-> ""]

\* getScheme: the scheme and what follows its colon
RECURSIVE getScheme(_, _)
getScheme(rawURL, i) ==
    IF i > Len(rawURL)
    THEN [err |-> FALSE, scheme |-> "", rest |-> rawURL]
    ELSE LET c == Char(rawURL, i) IN
         IF c \in Letter THEN getScheme(rawURL, i + 1)
         ELSE IF c \in Digit \cup {"+", "-", "."}
         THEN IF i = 1
              THEN [err |-> FALSE, scheme |-> "", rest |-> rawURL]
              ELSE getScheme(rawURL, i + 1)
         ELSE IF c = ":"
         THEN IF i = 1
              THEN [err |-> TRUE, scheme |-> "", rest |-> ""]
              ELSE [err |-> FALSE, scheme |-> SubSeq(rawURL, 1, i - 1),
                    rest |-> SubSeq(rawURL, i + 1, Len(rawURL))]
         ELSE [err |-> FALSE, scheme |-> "", rest |-> rawURL]

\* validOptionalPort: "" or a colon followed by digits only
validOptionalPort(port) ==
    \/ port = ""
    \/ /\ Char(port, 1) = ":"
       /\ \A i \in 2..Len(port) : Char(port, i) \in Digit

\* the bytes unescape(host, encodeHost) lets through unescaped
HostByte == Letter \cup Digit \cup
    {"!", "$", "&", "'", "(", ")", "*", "+", ",", ";", "=", ":", "<", ">", "\"",
     "-", "_", ".", "~"}

\* parseAuthority / parseHost: whether the authority is accepted
validAuthority(authority) ==
    /\ \/ strings_LastIndex(authority, ":") = 0
       \/ validOptionalPort(SubSeq(authority, strings_LastIndex(authority, ":"),
                                   Len(authority)))
    /\ \A i \in 1..Len(authority) : Char(authority, i) \in HostByte

\* the authority is checked and the URL put together
parseAuthority(scheme, authority, path) ==
    IF validAuthority(authority)
    THEN [err |-> FALSE, Scheme |-> scheme, Host |-> authority, Path |-> path]
    ELSE ParseError

\* rest follows the "//"; i is where its first "/" is, 0 if it has none
splitAuthority(scheme, rest, i) ==
    IF i = 0 THEN parseAuthority(scheme, rest, "")
    ELSE parseAuthority(scheme, SubSeq(rest, 1, i - 1), SubSeq(rest, i, Len(rest)))

\* rest follows the scheme, the query cut off
parseRest(scheme, rest) ==
    IF ~strings_HasPrefix(rest, "/") /\ scheme # ""
    THEN \* a rootless path after a scheme is opaque: Path stays empty
         [err |-> FALSE, Scheme |-> scheme, Host |-> "", Path |-> ""]
    ELSE IF /\ ~strings_HasPrefix(rest, "/")
            /\ strings_Contains(CutBefore(rest, "/"), ":")
    THEN ParseError     \* first path segment in URL cannot contain colon
    ELSE IF /\ scheme # "" \/ ~strings_HasPrefix(rest, "///")
            /\ strings_HasPrefix(rest, "//")
    THEN splitAuthority(scheme, SubSeq(rest, 3, Len(rest)),
                        strings_Index(SubSeq(rest, 3, Len(rest)), "/"))
    ELSE [err |-> FALSE, Scheme |-> scheme, Host |-> "", Path |-> rest]

\* a lone trailing "?" is dropped (ForceQuery), else the query is cut off
cutQuery(rest) ==
    IF strings_HasSuffix(rest, "?") /\ strings_Count(rest, "?") = 1
    THEN SubSeq(rest, 1, Len(rest) - 1)
    ELSE CutBefore(rest, "?")

parseScheme(sch) ==
    IF sch.err THEN ParseError ELSE parseRest(sch.scheme, cutQuery(sch.rest))

url_parse(rawURL) ==
    IF rawURL = "*" THEN [err |-> FALSE, Scheme |-> "", Host |-> "", Path |-> "*"]
    ELSE parseScheme(getScheme(rawURL, 1))

\* url.Parse: the fragment is cut off first
Parse(rawURL) == url_parse(CutBefore(rawURL, "#"))

\* Parse, worked out once for the strings the calls of Spec pass
ParseTable == [rawURL \in KnownPaths |-> Parse(rawURL)]

url_Parse(rawURL) ==
    IF rawURL \in KnownPaths THEN ParseTable[rawURL] ELSE Parse(rawURL)

(***************************************************************************)
(* The path normalizers.                                                   *)
(***************************************************************************)
\* ToRelativePath without the TrimPrefix on the URL branch
aliyun_ToRelativePath_untrimmed(urlPath) ==
    LET u == url_Parse(urlPath)
    IN IF aliyun_urlRegexp(urlPath) /\ ~u.err
       THEN u.Path
       ELSE strings_TrimPrefix(urlPath, "/")

aliyun_ToRelativePath(urlPath) ==
    LET u == url_Parse(urlPath)
    IN IF aliyun_urlRegexp(urlPath) /\ ~u.err
       THEN strings_TrimPrefix(u.Path, "/")
       ELSE strings_TrimPrefix(urlPath, "/")

tencent_ToRelativePath(urlPath) ==
    LET u == url_Parse(urlPath)
    IN IF tencent_urlRegexp(urlPath) /\ ~u.err
       THEN strings_TrimPrefix(u.Path, "/")
       ELSE strings_TrimPrefix(urlPath, "/")

azureblob_ToRelativePath(urlPath) ==
    LET u == url_Parse(urlPath)
    IN IF azureblob_urlRegexp(urlPath) /\ ~u.err
       THEN strings_TrimPrefix(u.Path, "/")
       ELSE strings_TrimPrefix(urlPath, "/")

huawei_ToRelativePath(urlPath) == strings_TrimPrefix(urlPath, "/")

qiniu_storageKey(urlPath) ==
    LET u == url_Parse(urlPath)
    IN strings_TrimPrefix(
           IF qiniu_urlRegexp(urlPath) /\ ~u.err THEN u.Path ELSE urlPath,
           "/")

s3_ToRelativePath(config, urlPath) ==
    LET u == url_Parse(urlPath)
    IN IF s3_urlRegexp(urlPath) /\ ~u.err
       THEN IF config.S3ForcePathStyle
            THEN strings_TrimPrefix(u.Path, "/" \o config.Bucket)
            ELSE u.Path
       ELSE IF config.S3ForcePathStyle
            THEN "/" \o strings_TrimPrefix(urlPath, "/" \o config.Bucket \o "/")
            ELSE "/" \o strings_TrimPrefix(urlPath, "/")

googlecloud_GetEndpoint(config) ==
    IF config.Endpoint # "" THEN config.Endpoint ELSE "https://storage.googleapis.com"

googlecloud_ToRelativePath(config, urlPath) ==
    IF strings_HasPrefix(urlPath, googlecloud_GetEndpoint(config))
    THEN strings_TrimPrefix(strings_TrimPrefix(urlPath, googlecloud_GetEndpoint(config)), "/")
    ELSE urlPath

(***************************************************************************)
(* SpecNorm: the normalizers as pure functions.  Init draws a backend, its *)
(* Config and an input built from a shape, an endpoint host and a key      *)
(* part; Normalize applies the backend's normalizer to the input and       *)
(* Renormalize applies it to the result.                                   *)
(***************************************************************************)
NormKinds == {"aliyun", "tencent", "azureblob", "huawei", "qiniu", "s3", "googlecloud"}

Hosts == {"h.c", "ab", "x--y.c"}

TailAlphabet == {"/", "a", "b", ":"}

RECURSIVE StringsUpTo(_)
StringsUpTo(n) ==
    IF n = 0 THEN {""}
    ELSE StringsUpTo(n - 1) \cup {s \o c : s \in StringsUpTo(n - 1), c \in TailAlphabet}

Tails == StringsUpTo(MaxTailLen) \cup {"a/b.txt"}

Normalize(kind, config, path) ==
    CASE kind = "aliyun"      -> aliyun_ToRelativePath(path)
      [] kind = "tencent"     -> tencent_ToRelativePath(path)
      [] kind = "azureblob"   -> azureblob_ToRelativePath(path)
      [] kind = "huawei"      -> huawei_ToRelativePath(path)
      [] kind = "qiniu"       -> qiniu_storageKey(path)
      [] kind = "s3"          -> s3_ToRelativePath(config, path)
      [] kind = "googlecloud" -> googlecloud_ToRelativePath(config, path)

NormConfigs(kind) ==
    [Bucket : {BucketName},
     Endpoint : {EndpointHost},
     S3ForcePathStyle : IF kind = "s3" THEN BOOLEAN ELSE {FALSE}]

NormInit ==
    /\ nkind \in NormKinds
    /\ ncfg \in NormConfigs(nkind)
    /\ nshape \in Shapes
    /\ nhost \in (IF nshape \in HostShapes THEN Hosts ELSE {""})
    /\ ntail \in Tails
    /\ nin = Build(nshape, nhost, ntail)
    /\ nout = <<>>
    /\ backend = nkind /\ Config = ncfg /\ store = <<>> /\ dirs = {}
    /\ last = <<>>
    /\ pkind = "" /\ pstored = 0 /\ plisted = <<>>
    /\ AuxIdle

NormApply ==
    /\ nout = <<>>
    /\ nout' = <<Normalize(nkind, ncfg, nin)>>
    /\ UNCHANGED <<nkind, ncfg, nshape, nhost, ntail, nin>>
    /\ UNCHANGED <<opVars, pageVars, auxVars>>

NormReapply ==
    /\ Len(nout) = 1
    /\ nout' = Append(nout, Normalize(nkind, ncfg, nout[1]))
    /\ UNCHANGED <<nkind, ncfg, nshape, nhost, ntail, nin>>
    /\ UNCHANGED <<opVars, pageVars, auxVars>>

NormNext == NormApply \/ NormReapply

SpecNorm == NormInit /\ [][NormNext]_<<normVars, opVars, pageVars>>

(***************************************************************************)
(* Go package path/filepath (Unix).                                        *)
(***************************************************************************)
RECURSIVE SplitSlash(_)
SplitSlash(s) ==
    IF strings_Index(s, "/") = 0 THEN <<s>>
    ELSE <<CutBefore(s, "/")>> \o SplitSlash(CutAfter(s, "/"))

RECURSIVE JoinSlash(_)
JoinSlash(segs) ==
    IF segs = <<>> THEN ""
    ELSE IF Len(segs) = 1 THEN segs[1]
    ELSE segs[1] \o "/" \o JoinSlash(Tail(segs))

\* the lexical processing of Clean: "" and "." elements dropped, ".." eats
\* the element before it
RECURSIVE CleanSegs(_, _, _)
CleanSegs(segs, acc, rooted) ==
    IF segs = <<>> THEN acc
    ELSE LET h == Head(segs)
             t == Tail(segs)
         IN IF h = "" \/ h = "." THEN CleanSegs(t, acc, rooted)
            ELSE IF h = ".."
            THEN IF acc # <<>> /\ acc[Len(acc)] # ".."
                 THEN CleanSegs(t, SubSeq(acc, 1, Len(acc) - 1), rooted)
                 ELSE IF rooted THEN CleanSegs(t, acc, rooted)
                 ELSE CleanSegs(t, Append(acc, ".."), rooted)
            ELSE CleanSegs(t, Append(acc, h), rooted)

Clean(path) ==
    IF path = "" THEN "."
    ELSE LET rooted == Char(path, 1) = "/"
             body == JoinSlash(CleanSegs(SplitSlash(path), <<>>, rooted))
         IN IF rooted THEN "/" \o body
            ELSE IF body = "" THEN "." ELSE body

\* Clean, worked out once for the strings the calls of Spec pass
CleanTable ==
    [path \in KnownFiles \cup UNION {Beginnings(Clean(f)) : f \in KnownFiles} |->
        Clean(path)]

filepath_Clean(path) ==
    IF path \in DOMAIN CleanTable THEN CleanTable[path] ELSE Clean(path)

\* filepath.Join of two elements: empty elements are ignored
filepath_Join(a, b) ==
    IF a = "" /\ b = "" THEN ""
    ELSE IF a = "" THEN filepath_Clean(b)
    ELSE IF b = "" THEN filepath_Clean(a)
    ELSE filepath_Clean(a \o "/" \o b)

filepath_Dir(path) == filepath_Clean(SubSeq(path, 1, strings_LastIndex(path, "/")))

filepath_Base(path) ==
    IF path = "" THEN "."
    ELSE LET stripped == IF strings_TrimSlashes(path) = "" THEN ""
                         ELSE SubSeq(path, 1, Len(path) -
                              (Len(strings_TrimPrefix(path, "/")) -
                               Len(strings_TrimSlashes(strings_TrimPrefix(path, "/")))))
         IN IF stripped = "" THEN "/"
            ELSE SubSeq(stripped, strings_LastIndex(stripped, "/") + 1, Len(stripped))

\* filepath.Abs of a rooted path
filepath_Abs(path) == filepath_Clean(path)

(***************************************************************************)
(* The caller's io.Reader and the vendor's object store.                   *)
(***************************************************************************)
\* if seeker, ok := reader.(io.ReadSeeker); ok { seeker.Seek(0, 0) }
Rewound(reader) == IF reader.seekable THEN [reader EXCEPT !.pos = 0] ELSE reader

\* what io.Copy / ioutil.ReadAll reads: the bytes from the current offset on
ReadAll(reader) == SubSeq(reader.data, reader.pos + 1, Len(reader.data))

\* what one contract call did: the store it left, what it returned, and the
\* key it handed to the vendor
Outcome(st, ds, status, vkey, content, objects) ==
    [st |-> st, ds |-> ds, status |-> status, vkey |-> vkey,
     content |-> content, objects |-> objects]

StorePut(st, key, bytes) ==
    [k \in DOMAIN st \cup {key} |-> IF k = key THEN bytes ELSE st[k]]

StoreDelete(st, key) == [k \in DOMAIN st \ {key} |-> st[k]]

\* a vendor's object calls: an empty key is rejected, a missing object is an
\* error on read
VendorPutObject(st, key, bytes) ==
    IF key = "" THEN Outcome(st, {}, "error", key, "", {})
    ELSE Outcome(StorePut(st, key, bytes), {}, "ok", key, bytes, {})

VendorGetObject(st, key) ==
    IF key \in DOMAIN st THEN Outcome(st, {}, "ok", key, st[key], {})
    ELSE Outcome(st, {}, "error", key, "", {})

VendorDeleteObject(st, key, missingIsError) ==
    IF key = "" \/ (missingIsError /\ key \notin DOMAIN st)
    THEN Outcome(st, {}, "error", key, "", {})
    ELSE Outcome(StoreDelete(st, key), {}, "ok", key, "", {})

\* one listing call without a limit of its own: the keys that start with
\* prefix (the stores of this model are smaller than any vendor's page)
VendorListObjects(st, prefix) == {k \in DOMAIN st : strings_HasPrefix(k, prefix)}

\* a listing call that asks for at most limit keys
FirstPage(keys, limit) ==
    IF Cardinality(keys) <= limit THEN keys
    ELSE CHOOSE page \in SUBSET keys : Cardinality(page) = limit

\* the (Path, vendor key) pairs of a returned []*oss.Object
Listed(st, status, prefix, objects) == Outcome(st, {}, status, prefix, "", objects)

(***************************************************************************)
(* aliyun                                                                  *)
(***************************************************************************)
aliyun_GetStream(st, path) == VendorGetObject(st, aliyun_ToRelativePath(path))

aliyun_Get(st, path) == aliyun_GetStream(st, path)

aliyun_Put(st, urlPath, reader) ==
    VendorPutObject(st, aliyun_ToRelativePath(urlPath), ReadAll(Rewound(reader)))

\* Delete on a vendor that reports a missing key
aliyun_Delete_strict(st, path) ==
    VendorDeleteObject(st, aliyun_ToRelativePath(path), TRUE)

aliyun_Delete(st, path) == VendorDeleteObject(st, aliyun_ToRelativePath(path), FALSE)

aliyun_List(st, path) ==
    Listed(st, "ok", path,
           {[Path |-> "/" \o aliyun_ToRelativePath(k), Key |-> k] :
               k \in VendorListObjects(st, path)})

(***************************************************************************)
(* tencent                                                                 *)
(***************************************************************************)
tencent_GetStream(st, path) == VendorGetObject(st, tencent_ToRelativePath(path))

tencent_Get(st, path) == tencent_GetStream(st, path)

tencent_Put(st, path, body) ==
    VendorPutObject(st, tencent_ToRelativePath(path), ReadAll(Rewound(body)))

tencent_Delete(st, path) == VendorDeleteObject(st, tencent_ToRelativePath(path), FALSE)

tencent_List(st, path) ==
    Listed(st, "ok", tencent_ToRelativePath(path),
           {[Path |-> "/" \o k, Key |-> k] :
               k \in VendorListObjects(st, tencent_ToRelativePath(path))})

(***************************************************************************)
(* huawei                                                                  *)
(***************************************************************************)
huawei_GetStream(st, path) == VendorGetObject(st, huawei_ToRelativePath(path))

huawei_Get(st, path) == huawei_GetStream(st, path)

huawei_Put(st, urlPath, reader) ==
    VendorPutObject(st, huawei_ToRelativePath(urlPath), ReadAll(Rewound(reader)))

huawei_Delete(st, path) == VendorDeleteObject(st, huawei_ToRelativePath(path), FALSE)

huawei_List(st, path) ==
    Listed(st, "ok", huawei_ToRelativePath(path),
           {[Path |-> "/" \o k, Key |-> k] :
               k \in VendorListObjects(st, huawei_ToRelativePath(path))})

(***************************************************************************)
(* qiniu                                                                   *)
(***************************************************************************)
qiniu_ListLimit == 100

\* GetURL of an empty path is "", http.Get("") fails and res is nil:
\* res.Body panics.  A missing key answers 404: the body is returned
\* together with the error.
qiniu_NotFoundBody == "404"

qiniu_Fetch(st, key) ==
    IF key \in DOMAIN st THEN Outcome(st, {}, "ok", key, st[key], {})
    ELSE Outcome(st, {}, "error", key, qiniu_NotFoundBody, {})

qiniu_GetStream(st, path) ==
    IF path = "" THEN Outcome(st, {}, "panic", "", "", {})
    ELSE qiniu_Fetch(st, qiniu_storageKey(path))

\* Get drops GetStream's error and copies whatever body it got
qiniu_Copy(stream) ==
    IF stream.status = "panic" THEN stream ELSE [stream EXCEPT !.status = "ok"]

qiniu_Get(st, path) == qiniu_Copy(qiniu_GetStream(st, path))

qiniu_Put(st, urlPath, reader) ==
    VendorPutObject(st, qiniu_storageKey(urlPath), ReadAll(Rewound(reader)))

qiniu_Delete(st, path) == VendorDeleteObject(st, qiniu_storageKey(path), TRUE)

qiniu_List(st, path) ==
    Listed(st, "ok", qiniu_storageKey(path),
           {[Path |-> "/" \o qiniu_storageKey(k), Key |-> k] :
               k \in FirstPage(VendorListObjects(st, qiniu_storageKey(path)),
                               qiniu_ListLimit)})

(***************************************************************************)
(* s3                                                                      *)
(***************************************************************************)
RECURSIVE CollapseSlashes(_)
CollapseSlashes(s) ==
    IF ~\E i \in 1..(Len(s) - 1) : SubSeq(s, i, i + 1) = "//" THEN s
    ELSE LET i == CHOOSE j \in 1..(Len(s) - 1) : SubSeq(s, j, j + 1) = "//"
         IN CollapseSlashes(SubSeq(s, 1, i) \o SubSeq(s, i + 2, Len(s)))

\* the SDK puts the key into the request path "/{Key+}" and cleans the path
\* (DisableRestProtocolURICleaning is left false by New)
s3_RESTKey(key) == strings_TrimPrefix(CollapseSlashes("/" \o key), "/")

s3_GetStream(cfg, st, path) ==
    VendorGetObject(st, s3_RESTKey(s3_ToRelativePath(cfg, path)))

s3_Get(cfg, st, path) == s3_GetStream(cfg, st, path)

s3_Put(cfg, st, urlPath, reader) ==
    VendorPutObject(st, s3_RESTKey(s3_ToRelativePath(cfg, urlPath)),
                    ReadAll(Rewound(reader)))

s3_Delete(cfg, st, path) ==
    VendorDeleteObject(st, s3_RESTKey(s3_ToRelativePath(cfg, path)), FALSE)

s3_List(cfg, st, path) ==
    LET prefix == IF path # "" THEN strings_TrimSlashes(path) \o "/" ELSE ""
    IN Listed(st, "ok", prefix,
              {[Path |-> s3_ToRelativePath(cfg, k), Key |-> k] :
                  k \in VendorListObjects(st, prefix)})

(***************************************************************************)
(* azureblob                                                               *)
(***************************************************************************)
\* GetStream hands the path to DownloadBlob as it is; Get normalizes first
azureblob_GetStream(st, path) == VendorGetObject(st, path)

azureblob_Get(st, path) == azureblob_GetStream(st, azureblob_ToRelativePath(path))

azureblob_Put(st, urlPath, reader) ==
    VendorPutObject(st, azureblob_ToRelativePath(urlPath), ReadAll(Rewound(reader)))

azureblob_Delete(st, path) ==
    VendorDeleteObject(st, azureblob_ToRelativePath(path), TRUE)

azureblob_List(st, path) == Listed(st, "panic", "", {})

(***************************************************************************)
(* googlecloud                                                             *)
(***************************************************************************)
googlecloud_GetStream(st, path) == VendorGetObject(st, path)

googlecloud_Get(st, path) == googlecloud_GetStream(st, path)

\* no Seek: io.Copy(wc, reader) starts where the reader stands
googlecloud_Put(st, urlPath, reader) == VendorPutObject(st, urlPath, ReadAll(reader))

googlecloud_Delete(st, path) == VendorDeleteObject(st, path, TRUE)

googlecloud_List(st, path) ==
    Listed(st, "ok", path,
           {[Path |-> "/" \o k, Key |-> k] : k \in VendorListObjects(st, path)})

(***************************************************************************)
(* filesystem: st maps the path of every file to its bytes, ds is the set  *)
(* of directories.                                                         *)
(***************************************************************************)
RECURSIVE Ancestors(_)
Ancestors(p) ==
    IF p = "/" \/ p = "." THEN {}
    ELSE {filepath_Dir(p)} \cup Ancestors(filepath_Dir(p))

Under(p, dir) == IF dir = "/" THEN p # "/" ELSE strings_HasPrefix(p, dir \o "/")

\* what os.Open hands back for a directory: a handle with no bytes to read
filesystem_DirHandle == "<directory>"

filesystem_GetFullPath(cfg, path) ==
    IF ~strings_HasPrefix(path, cfg.Base)
    THEN filepath_Abs(filepath_Join(cfg.Base, path))
    ELSE path

\* os.Open(fullpath); name is the file fullpath names
os_Open(st, ds, fullpath, name) ==
    IF name \in DOMAIN st THEN Outcome(st, ds, "ok", fullpath, st[name], {})
    ELSE IF name \in ds THEN Outcome(st, ds, "ok", fullpath, filesystem_DirHandle, {})
    ELSE Outcome(st, ds, "error", fullpath, "", {})

filesystem_GetStream(cfg, st, ds, path) ==
    os_Open(st, ds, filesystem_GetFullPath(cfg, path),
            filepath_Clean(filesystem_GetFullPath(cfg, path)))

filesystem_Get(cfg, st, ds, path) == filesystem_GetStream(cfg, st, ds, path)

\* os.Create(fullpath) in the directories made, then Seek and io.Copy
os_Create(st, made, fullpath, name, reader) ==
    IF name \in made
    THEN Outcome(st, made, "error", fullpath, "", {})
    ELSE Outcome(StorePut(st, name, ReadAll(Rewound(reader))), made, "ok",
                 fullpath, ReadAll(Rewound(reader)), {})

\* os.MkdirAll(filepath.Dir(fullpath)): chain is the directory and all above
\* it; a file among them is an error
os_MkdirAll(st, ds, chain, fullpath, name, reader) ==
    IF \E d \in chain : d \in DOMAIN st
    THEN Outcome(st, ds, "error", fullpath, "", {})
    ELSE os_Create(st, ds \cup chain, fullpath, name, reader)

DirChain(dir) == {dir} \cup Ancestors(dir)

filesystem_Put(cfg, st, ds, path, reader) ==
    os_MkdirAll(st, ds,
                DirChain(filepath_Dir(filepath_Clean(filesystem_GetFullPath(cfg, path)))),
                filesystem_GetFullPath(cfg, path),
                filepath_Clean(filesystem_GetFullPath(cfg, path)), reader)

\* os.Remove: a file, or a directory with nothing in it
os_Remove(st, ds, fullpath, name) ==
    IF name \in DOMAIN st
    THEN Outcome(StoreDelete(st, name), ds, "ok", fullpath, "", {})
    ELSE IF name \in ds /\ name # "/"
            /\ ~\E q \in DOMAIN st \cup ds : Under(q, name)
    THEN Outcome(st, ds \ {name}, "ok", fullpath, "", {})
    ELSE Outcome(st, ds, "error", fullpath, "", {})

filesystem_Delete(cfg, st, ds, path) ==
    os_Remove(st, ds, filesystem_GetFullPath(cfg, path),
              filepath_Clean(filesystem_GetFullPath(cfg, path)))

\* filepath.Walk from fullpath: the root is skipped, directories are skipped,
\* every file below is reported with Base cut off its path
filepath_Walk(cfg, st, ds, fullpath, name) ==
    Outcome(st, ds, "ok", fullpath, "",
            {[Path |-> strings_TrimPrefix(f, cfg.Base), Key |-> f] :
                f \in IF name \in ds THEN {g \in DOMAIN st : Under(g, name)} ELSE {}})

filesystem_List(cfg, st, ds, path) ==
    filepath_Walk(cfg, st, ds, filesystem_GetFullPath(cfg, path),
                  filepath_Clean(filesystem_GetFullPath(cfg, path)))

(***************************************************************************)
(* synology: st maps the path of every file on the station to its bytes.   *)
(***************************************************************************)
\* the station's answers: a file it has is sent with status 200
station_Download(st, path, name) ==
    IF name \in DOMAIN st THEN Outcome(st, {}, "ok", path, st[name], {})
    ELSE Outcome(st, {}, "error", path, "", {})

synology_GetStream(cfg, st, path) ==
    IF path = "" THEN Outcome(st, {}, "error", "", "", {})
    ELSE station_Download(st, cfg.SharedFolder \o path,
                          filepath_Clean(cfg.SharedFolder \o path))

synology_Get(cfg, st, path) == synology_GetStream(cfg, st, path)

\* an upload into a folder that is no absolute path, or under no name, is
\* refused in the body of an answer with status 200
station_Upload(st, folder, filename, bytes) ==
    IF ~strings_HasPrefix(folder, "/") \/ filename \in {".", "/"}
    THEN Outcome(st, {}, "ok", folder \o "/" \o filename, "", {})
    ELSE Outcome(StorePut(st, filepath_Clean(folder \o "/" \o filename), bytes),
                 {}, "ok", folder \o "/" \o filename, bytes, {})

\* the upload goes to folder sharedFolder+Dir(parsed path) under the name
\* Base(urlPath); no Seek; a nil *url.URL is dereferenced when Parse fails;
\* any answer with status 200 counts as success
synology_Upload(cfg, st, parserURL, filename, reader) ==
    IF parserURL.err THEN Outcome(st, {}, "panic", "", "", {})
    ELSE station_Upload(st, cfg.SharedFolder \o filepath_Dir(parserURL.Path),
                        filename, ReadAll(reader))

synology_Put(cfg, st, urlPath, reader) ==
    synology_Upload(cfg, st, url_Parse(urlPath), filepath_Base(urlPath), reader)

\* the station removes the file, or the folder with all it holds; Delete
\* returns nil whatever the station answered
station_Delete(st, path, name) ==
    Outcome([k \in {q \in DOMAIN st : q # name /\ ~Under(q, name)} |-> st[k]],
            {}, "ok", path, "", {})

synology_Delete(cfg, st, path) ==
    station_Delete(st, cfg.SharedFolder \o path,
                   filepath_Clean(cfg.SharedFolder \o path))

\* the entry of folder that p lies in or is
ChildOf(p, folder) ==
    LET rest == strings_TrimPrefix(p, IF folder = "/" THEN "/" ELSE folder \o "/")
        first == IF strings_Contains(rest, "/") THEN CutBefore(rest, "/") ELSE rest
    IN (IF folder = "/" THEN "/" ELSE folder \o "/") \o first

\* pathParts = append(pathParts[:1], pathParts[2:]...)
DropFirstSegment(p) ==
    LET pathParts == SplitSlash(p)
    IN IF Len(pathParts) > 1
       THEN JoinSlash(<<pathParts[1]>> \o SubSeq(pathParts, 3, Len(pathParts)))
       ELSE p

\* the station lists the entries of one folder, files and folders alike; for
\* a folder it does not have the answer carries no "data" and the type
\* assertion on it panics
station_List(st, path, folder, shared) ==
    IF {f \in DOMAIN st : Under(f, folder)} = {} /\ folder # shared
    THEN Outcome(st, {}, "panic", path, "", {})
    ELSE Outcome(st, {}, "ok", path, "",
                 {[Path |-> DropFirstSegment(ChildOf(f, folder)),
                   Key |-> ChildOf(f, folder)] :
                     f \in {g \in DOMAIN st : Under(g, folder)}})

synology_List(cfg, st, path) ==
    station_List(st, cfg.SharedFolder \o "/" \o path,
                 filepath_Clean(cfg.SharedFolder \o "/" \o path),
                 filepath_Clean(cfg.SharedFolder))

(***************************************************************************)
(* Spec: one backend, the five contract calls in any order.                *)
(***************************************************************************)
Backends == {"filesystem", "aliyun", "tencent", "huawei", "qiniu", "s3",
             "azureblob", "googlecloud", "synology"}

\* the most objects the vendor holds at a time
MaxObjects == 2

Contents == {"", "xy"}

\* an io.Reader over one of the contents, fresh or read to its end; seekable
\* tells whether it is an io.ReadSeeker
Readers ==
    UNION {{[data |-> c, pos |-> n, seekable |-> sk] :
               n \in {0, Len(c)}, sk \in BOOLEAN} : c \in Contents}

Configs(kind) ==
    [Bucket : {BucketName},
     Endpoint : {IF kind = "googlecloud" THEN "https://" \o EndpointHost ELSE EndpointHost},
     S3ForcePathStyle : IF kind = "s3" THEN BOOLEAN ELSE {FALSE},
     Base : {"/r"}, SharedFolder : {"/s"}]

\* oss.StorageInterface: the call goes to the backend the caller holds
StorageInterface_Put(kind, cfg, st, ds, path, reader) ==
    CASE kind = "filesystem" -> filesystem_Put(cfg, st, ds, path, reader)
      [] kind = "aliyun" -> aliyun_Put(st, path, reader)
      [] kind = "tencent" -> tencent_Put(st, path, reader)
      [] kind = "huawei" -> huawei_Put(st, path, reader)
      [] kind = "qiniu" -> qiniu_Put(st, path, reader)
      [] kind = "s3" -> s3_Put(cfg, st, path, reader)
      [] kind = "azureblob" -> azureblob_Put(st, path, reader)
      [] kind = "googlecloud" -> googlecloud_Put(st, path, reader)
      [] kind = "synology" -> synology_Put(cfg, st, path, reader)

StorageInterface_Get(kind, cfg, st, ds, path) ==
    CASE kind = "filesystem" -> filesystem_Get(cfg, st, ds, path)
      [] kind = "aliyun" -> aliyun_Get(st, path)
      [] kind = "tencent" -> tencent_Get(st, path)
      [] kind = "huawei" -> huawei_Get(st, path)
      [] kind = "qiniu" -> qiniu_Get(st, path)
      [] kind = "s3" -> s3_Get(cfg, st, path)
      [] kind = "azureblob" -> azureblob_Get(st, path)
      [] kind = "googlecloud" -> googlecloud_Get(st, path)
      [] kind = "synology" -> synology_Get(cfg, st, path)

StorageInterface_GetStream(kind, cfg, st, ds, path) ==
    CASE kind = "filesystem" -> filesystem_GetStream(cfg, st, ds, path)
      [] kind = "aliyun" -> aliyun_GetStream(st, path)
      [] kind = "tencent" -> tencent_GetStream(st, path)
      [] kind = "huawei" -> huawei_GetStream(st, path)
      [] kind = "qiniu" -> qiniu_GetStream(st, path)
      [] kind = "s3" -> s3_GetStream(cfg, st, path)
      [] kind = "azureblob" -> azureblob_GetStream(st, path)
      [] kind = "googlecloud" -> googlecloud_GetStream(st, path)
      [] kind = "synology" -> synology_GetStream(cfg, st, path)

StorageInterface_Delete(kind, cfg, st, ds, path) ==
    CASE kind = "filesystem" -> filesystem_Delete(cfg, st, ds, path)
      [] kind = "aliyun" -> aliyun_Delete(st, path)
      [] kind = "tencent" -> tencent_Delete(st, path)
      [] kind = "huawei" -> huawei_Delete(st, path)
      [] kind = "qiniu" -> qiniu_Delete(st, path)
      [] kind = "s3" -> s3_Delete(cfg, st, path)
      [] kind = "azureblob" -> azureblob_Delete(st, path)
      [] kind = "googlecloud" -> googlecloud_Delete(st, path)
      [] kind = "synology" -> synology_Delete(cfg, st, path)

StorageInterface_List(kind, cfg, st, ds, path) ==
    CASE kind = "filesystem" -> filesystem_List(cfg, st, ds, path)
      [] kind = "aliyun" -> aliyun_List(st, path)
      [] kind = "tencent" -> tencent_List(st, path)
      [] kind = "huawei" -> huawei_List(st, path)
      [] kind = "qiniu" -> qiniu_List(st, path)
      [] kind = "s3" -> s3_List(cfg, st, path)
      [] kind = "azureblob" -> azureblob_List(st, path)
      [] kind = "googlecloud" -> googlecloud_List(st, path)
      [] kind = "synology" -> synology_List(cfg, st, path)

NoReader == [data |-> "", pos |-> 0, seekable |-> FALSE]

NoCall == [op |-> "none", shape |-> "", key |-> "", path |-> "", reader |-> NoReader,
           status |-> "", vkey |-> "", content |-> "", objects |-> {},
           afterPut |-> FALSE, putReader |-> NoReader,
           afterDelete |-> FALSE, before |-> <<>>]

\* the record of a call: its arguments, what it returned, for a read whether
\* it follows a successful Put of the same path, and for a Delete whether it
\* follows a successful Delete of the same path and what was stored before it
Call(op, shape, key, path, reader, o) ==
    [op |-> op, shape |-> shape, key |-> key, path |-> path, reader |-> reader,
     status |-> o.status, vkey |-> o.vkey, content |-> o.content,
     objects |-> o.objects,
     afterPut |-> (op \in {"Get", "GetStream"} /\ last.op = "Put"
                   /\ last.status = "ok" /\ last.path = path),
     putReader |-> IF op \in {"Get", "GetStream"} /\ last.op = "Put"
                      /\ last.status = "ok" /\ last.path = path
                   THEN last.reader ELSE NoReader,
     afterDelete |-> (op = "Delete" /\ last.op = "Delete"
                      /\ last.status = "ok" /\ last.path = path),
     before |-> IF op = "Delete" THEN store ELSE <<>>]

Init ==
    /\ backend \in Backends
    /\ Config \in Configs(backend)
    /\ store = <<>>
    /\ dirs = (IF backend = "filesystem" THEN {"/", Config.Base} ELSE {})
    /\ last = NoCall
    /\ nkind = "" /\ ncfg = Config /\ nshape = "" /\ nhost = "" /\ ntail = ""
    /\ nin = "" /\ nout = <<>>
    /\ pkind = "" /\ pstored = 0 /\ plisted = <<>>
    /\ AuxIdle

\* the call took effect: the backend is left as the call left it and the
\* call is on record; a Put that would overfill the vendor does not happen
Returned(op, shape, key, path, reader, o) ==
    /\ Cardinality(DOMAIN o.st) <= MaxObjects
    /\ store' = o.st
    /\ dirs' = o.ds
    /\ last' = Call(op, shape, key, path, reader, o)
    /\ UNCHANGED <<backend, Config>>
    /\ UNCHANGED <<normVars, pageVars, auxVars>>

Put ==
    \E shape \in KeyShapes, key \in Keys, reader \in Readers :
        Returned("Put", shape, key, Build(shape, EndpointHost, key), reader,
                 StorageInterface_Put(backend, Config, store, dirs,
                                      Build(shape, EndpointHost, key), reader))

Get ==
    \E shape \in KeyShapes, key \in Keys :
        Returned("Get", shape, key, Build(shape, EndpointHost, key), NoReader,
                 StorageInterface_Get(backend, Config, store, dirs,
                                      Build(shape, EndpointHost, key)))

GetStream ==
    \E shape \in KeyShapes, key \in Keys :
        Returned("GetStream", shape, key, Build(shape, EndpointHost, key), NoReader,
                 StorageInterface_GetStream(backend, Config, store, dirs,
                                            Build(shape, EndpointHost, key)))

Delete ==
    \E shape \in KeyShapes, key \in Keys :
        Returned("Delete", shape, key, Build(shape, EndpointHost, key), NoReader,
                 StorageInterface_Delete(backend, Config, store, dirs,
                                         Build(shape, EndpointHost, key)))

List ==
    \E path \in Prefixes :
        Returned("List", "", "", path, NoReader,
                 StorageInterface_List(backend, Config, store, dirs, path))

Next == Put \/ Get \/ GetStream \/ Delete \/ List

vars == <<opVars, normVars, pageVars, auxVars>>

Spec == Init /\ [][Next]_vars

(***************************************************************************)
(* SpecPage: a bucket that grows by one object at a time, all under one    *)
(* prefix and numbered in key order, and List on it.                       *)
(***************************************************************************)
\* the most objects the bucket holds
MaxStored == 101

PageKinds == {"qiniu", "googlecloud"}

\* qiniu: one ListFiles call with limit 100 and an empty marker; the marker
\* and the hasNext it returns are dropped
qiniu_ListFiles(stored) ==
    1..(IF stored <= qiniu_ListLimit THEN stored ELSE qiniu_ListLimit)

\* googlecloud: iter.Next() until iterator.Done
googlecloud_Objects(stored) == 1..stored

PageInit ==
    /\ pkind \in PageKinds
    /\ pstored = 0
    /\ plisted = <<>>
    /\ backend = pkind /\ Config = <<>> /\ store = <<>> /\ dirs = {} /\ last = <<>>
    /\ nkind = "" /\ ncfg = <<>> /\ nshape = "" /\ nhost = "" /\ ntail = ""
    /\ nin = "" /\ nout = <<>>
    /\ AuxIdle

PagePut ==
    /\ pstored < MaxStored
    /\ pstored' = pstored + 1
    /\ plisted' = <<>>
    /\ UNCHANGED <<pkind, opVars, normVars, auxVars>>

PageList ==
    /\ plisted' = <<IF pkind = "qiniu" THEN qiniu_ListFiles(pstored)
                    ELSE googlecloud_Objects(pstored)>>
    /\ UNCHANGED <<pkind, pstored, opVars, normVars, auxVars>>

PageNext == PagePut \/ PageList

SpecPage == PageInit /\ [][PageNext]_vars

(***************************************************************************)
(* SpecURL: a client is constructed by New from the caller's Config and    *)
(* GetURL and GetEndpoint are called on it.                                *)
(***************************************************************************)
AppID == "1"

Region == "r"

AccountName == "acct"

\* the validity window every signing call is given, in seconds
SignWindow == 3600

aliyun_DefaultEndpoint == "oss-cn-hangzhou.aliyuncs.com"

\* the endpoint the AWS SDK resolved for the client (client.S3.Endpoint)
s3_ResolvedEndpoint == "https://s3." \o Region \o ".amazonaws.com"

\* the Configs a caller hands to New
URLOptions(kind) ==
    [Bucket : {BucketName},
     Endpoint : CASE kind = "aliyun" -> {"", EndpointHost, "oss-cn-beijing.aliyuncs.com"}
                  [] kind = "qiniu" -> {"", EndpointHost, "https://" \o EndpointHost}
                  [] kind = "googlecloud" -> {"", "https://" \o EndpointHost}
                  [] kind = "filesystem" -> {""}
                  [] OTHER -> {"", EndpointHost},
     ACL : CASE kind = "aliyun" -> {"", "private", "public-read"}
             [] kind = "s3" -> {"", "private", "authenticated-read", "public-read"}
             [] OTHER -> {""},
     PrivateURL : IF kind = "qiniu" THEN BOOLEAN ELSE {FALSE},
     S3ForcePathStyle : {FALSE},
     SDKEndpoint : IF kind = "s3" THEN {"", s3_ResolvedEndpoint} ELSE {""},
     SharedFolder : {"/s"}]

\* New: aliyun and s3 write their defaults into the caller's Config; the
\* aliyun SDK client keeps the endpoint it was made with
aliyun_New(config) ==
    [config EXCEPT !.Endpoint = IF @ = "" THEN aliyun_DefaultEndpoint ELSE @,
                   !.ACL = IF @ = "" THEN "public-read" ELSE @,
                   !.SDKEndpoint = IF config.Endpoint = "" THEN aliyun_DefaultEndpoint
                                   ELSE config.Endpoint]

s3_New(config) == [config EXCEPT !.ACL = IF @ = "" THEN "public-read" ELSE @]

\* qiniu's New returns an error unless the endpoint carries its scheme
qiniu_NewFails(config) ==
    \/ config.Endpoint = ""
    \/ /\ ~strings_HasPrefix(config.Endpoint, "http://")
       /\ ~strings_HasPrefix(config.Endpoint, "https://")

New(kind, config) ==
    CASE kind = "aliyun" -> aliyun_New(config)
      [] kind = "s3" -> s3_New(config)
      [] OTHER -> config

TrimScheme(endpoint) ==
    strings_TrimPrefix(strings_TrimPrefix(endpoint, "https://"), "http://")

filesystem_GetEndpoint == "/"

aliyun_GetEndpoint(config) ==
    IF config.Endpoint # ""
    THEN IF strings_HasSuffix(config.Endpoint, "aliyuncs.com")
         THEN config.Bucket \o "." \o config.Endpoint
         ELSE config.Endpoint
    ELSE config.Bucket \o "." \o TrimScheme(config.SDKEndpoint)

tencent_BucketHost(config) ==
    config.Bucket \o "-" \o AppID \o ".cos." \o Region \o ".myqcloud.com"

tencent_GetEndpoint(config) ==
    IF config.Endpoint # "" THEN config.Endpoint ELSE tencent_BucketHost(config)

huawei_GetEndpoint(config) == config.Endpoint

qiniu_GetEndpoint(config) == config.Endpoint

s3_GetEndpoint(config) ==
    IF config.Endpoint # "" THEN config.Endpoint
    ELSE config.Bucket \o "." \o TrimScheme(config.SDKEndpoint)

azureblob_GetEndpoint(config) ==
    IF config.Endpoint # "" THEN config.Endpoint
    ELSE "https://" \o AccountName \o ".blob.core.windows.net"

synology_GetEndpoint(config) == config.Endpoint

StorageInterface_GetEndpoint(kind, config) ==
    CASE kind = "filesystem" -> filesystem_GetEndpoint
      [] kind = "aliyun" -> aliyun_GetEndpoint(config)
      [] kind = "tencent" -> tencent_GetEndpoint(config)
      [] kind = "huawei" -> huawei_GetEndpoint(config)
      [] kind = "qiniu" -> qiniu_GetEndpoint(config)
      [] kind = "s3" -> s3_GetEndpoint(config)
      [] kind = "azureblob" -> azureblob_GetEndpoint(config)
      [] kind = "googlecloud" -> googlecloud_GetEndpoint(config)
      [] kind = "synology" -> synology_GetEndpoint(config)

\* what GetURL returned: the url, whether an error came with it, whether the
\* url is signed and for how many seconds from the call
URLResult(url, err, signed, window) ==
    [url |-> url, err |-> err, signed |-> signed, window |-> window]

Plain(url) == URLResult(url, FALSE, FALSE, 0)

\* a vendor's signing call: the object's URL with expiry and signature in
\* its query
Signed(base, key, window) ==
    URLResult(base \o "/" \o key \o "?Expires&Signature", FALSE, TRUE, window)

aliyun_GetURL(config, path) ==
    IF config.ACL = "private"
    THEN Signed("https://" \o aliyun_GetEndpoint(config), aliyun_ToRelativePath(path),
                SignWindow)
    ELSE Plain(path)

tencent_getUrl(config, path) ==
    "https://" \o tencent_BucketHost(config) \o "/" \o tencent_ToRelativePath(path)

tencent_GetURL(config, path) == Plain(tencent_getUrl(config, path))

huawei_GetURL(config, path) ==
    Signed("https://" \o config.Bucket \o "." \o config.Endpoint,
           huawei_ToRelativePath(path), SignWindow)

\* storage.MakePublicURL: the domain without trailing slashes, "/", the key
qiniu_MakePublicURL(domain, key) ==
    (IF strings_HasSuffix(domain, "/") THEN SubSeq(domain, 1, Len(domain) - 1)
     ELSE domain) \o "/" \o key

qiniu_GetURL(config, path) ==
    IF path = "" THEN Plain("")
    ELSE IF config.PrivateURL
    THEN Signed(config.Endpoint, qiniu_storageKey(path), SignWindow)
    ELSE Plain(qiniu_MakePublicURL(qiniu_GetEndpoint(config), qiniu_storageKey(path)))

\* client.Endpoint is the promoted field of the embedded *s3.S3, the endpoint
\* the SDK resolved; Config.Endpoint is not read
s3_GetURL(config, path) ==
    IF config.SDKEndpoint = "" /\ config.ACL \in {"private", "authenticated-read"}
    THEN Signed("https://" \o config.Bucket \o ".s3.amazonaws.com",
                s3_RESTKey(s3_ToRelativePath(config, path)), SignWindow)
    ELSE Plain(path)

azureblob_GetURL(config, path) == Plain(path)

googlecloud_GetURL(config, path) == Plain(path)

filesystem_GetURL(config, path) == Plain(path)

\* url.Values.Encode on the bytes the paths of this model are made of
RECURSIVE url_QueryEscape(_)
url_QueryEscape(str) ==
    IF str = "" THEN ""
    ELSE (CASE Char(str, 1) = "/" -> "%2F"
            [] Char(str, 1) = ":" -> "%3A"
            [] OTHER -> Char(str, 1)) \o url_QueryEscape(SubSeq(str, 2, Len(str)))

synology_GetURL(config, path) ==
    IF path = "" THEN URLResult("", TRUE, FALSE, 0)
    ELSE Plain(config.Endpoint \o "/webapi/entry.cgi?path="
               \o url_QueryEscape(config.SharedFolder \o path))

StorageInterface_GetURL(kind, config, path) ==
    CASE kind = "filesystem" -> filesystem_GetURL(config, path)
      [] kind = "aliyun" -> aliyun_GetURL(config, path)
      [] kind = "tencent" -> tencent_GetURL(config, path)
      [] kind = "huawei" -> huawei_GetURL(config, path)
      [] kind = "qiniu" -> qiniu_GetURL(config, path)
      [] kind = "s3" -> s3_GetURL(config, path)
      [] kind = "azureblob" -> azureblob_GetURL(config, path)
      [] kind = "googlecloud" -> googlecloud_GetURL(config, path)
      [] kind = "synology" -> synology_GetURL(config, path)

URLShapes == KeyShapes \cup {"empty"}

URLPath(shape, key) == IF shape = "empty" THEN "" ELSE Build(shape, EndpointHost, key)

URLInit ==
    /\ ukind \in Backends
    /\ uopts \in URLOptions(ukind)
    /\ ~(ukind = "qiniu" /\ qiniu_NewFails(uopts))
    /\ ucfg = New(ukind, uopts)
    /\ ucall = [op |-> "none"]
    /\ backend = ukind /\ Config = <<>> /\ store = <<>> /\ dirs = {} /\ last = <<>>
    /\ nkind = "" /\ ncfg = <<>> /\ nshape = "" /\ nhost = "" /\ ntail = ""
    /\ nin = "" /\ nout = <<>>
    /\ pkind = "" /\ pstored = 0 /\ plisted = <<>>
    /\ GetIdle /\ PutIdle /\ MoreIdle

GetURL ==
    /\ \E shape \in URLShapes, key \in Keys :
           ucall' = [op |-> "GetURL", shape |-> shape, key |-> key,
                     path |-> URLPath(shape, key),
                     result |-> StorageInterface_GetURL(ukind, ucfg, URLPath(shape, key))]
    /\ UNCHANGED <<ukind, uopts, ucfg, normVars, opVars, pageVars, getVars, putVars, moreVars>>

GetEndpoint ==
    /\ ucall' = [op |-> "GetEndpoint",
                 result |-> StorageInterface_GetEndpoint(ukind, ucfg)]
    /\ UNCHANGED <<ukind, uopts, ucfg, normVars, opVars, pageVars, getVars, putVars, moreVars>>

URLNext == GetURL \/ GetEndpoint

SpecURL == URLInit /\ [][URLNext]_vars

(***************************************************************************)
(* SpecGet: callers run Get on one key while others Put and Delete it.     *)
(* Get takes two steps, the stream from the vendor and the copy into a     *)
(* temporary file; the copy can fail at TempFile, in io.Copy or in Seek.   *)
(* Files are numbered; a cloud Put makes a new object, os.Create rewrites  *)
(* the file the name already has.                                          *)
(***************************************************************************)
\* the most files, the vendor's and /tmp's together
MaxFiles == 4

Callers == {1, 2}

GetContents == {"x", "xy"}

Faults == {"none", "tempfile", "copy", "seek"}

NoGet == [pc |-> "idle", stream |-> "", file |-> 0, pos |-> 0, err |-> FALSE,
          made |-> 0, stored |-> FALSE, expected |-> "", fault |-> "none",
          got |-> <<>>]

\* what io.Copy wrote before the stream broke
BrokenCopy(stream) == SubSeq(stream, 1, Len(stream) - 1)

\* the copy step of Get on a stream: whether a temporary file was made, the
\* bytes it holds, whether the file is returned, whether an error is, and
\* where the file's offset stands
Copied(made, content, returned, err, pos) ==
    [made |-> made, content |-> content, returned |-> returned, err |-> err,
     pos |-> pos]

\* aliyun, tencent, huawei, qiniu, s3, synology return the file together with
\* the error of io.Copy and ignore the result of Seek; azureblob returns nil
\* and the error when Seek fails; googlecloud returns nil and the error when
\* io.Copy or Seek fails.  None removes the file.
Get_copy(kind, stream, fault) ==
    CASE fault = "tempfile" -> Copied(FALSE, "", FALSE, TRUE, 0)
      [] fault = "copy" ->
             Copied(TRUE, BrokenCopy(stream), kind # "googlecloud", TRUE, 0)
      [] fault = "seek" ->
             Copied(TRUE, stream, kind \notin {"azureblob", "googlecloud"},
                    kind \in {"azureblob", "googlecloud"}, Len(stream))
      [] OTHER -> Copied(TRUE, stream, TRUE, FALSE, 0)

FreeFile == CHOOSE id \in 1..MaxFiles : id \notin DOMAIN gfiles

GetInit ==
    /\ gkind \in Backends
    /\ gname = 0
    /\ gfiles = <<>>
    /\ gtemps = {}
    /\ gcalls = [c \in Callers |-> NoGet]
    /\ backend = gkind /\ Config = <<>> /\ store = <<>> /\ dirs = {} /\ last = <<>>
    /\ nkind = "" /\ ncfg = <<>> /\ nshape = "" /\ nhost = "" /\ ntail = ""
    /\ nin = "" /\ nout = <<>>
    /\ pkind = "" /\ pstored = 0 /\ plisted = <<>>
    /\ URLIdle /\ PutIdle /\ MoreIdle

GetRest == <<normVars, opVars, pageVars, urlVars, putVars, moreVars>>

\* Put by someone: os.Create truncates and rewrites the file the name has,
\* a vendor replaces the object by a new one
GetPut ==
    /\ \E content \in GetContents :
           IF gkind = "filesystem" /\ gname # 0
           THEN /\ gfiles' = [gfiles EXCEPT ![gname] = content]
                /\ UNCHANGED gname
           ELSE /\ Cardinality(DOMAIN gfiles) < MaxFiles
                /\ gname' = FreeFile
                /\ gfiles' = [id \in DOMAIN gfiles \cup {FreeFile} |->
                                 IF id = FreeFile THEN content ELSE gfiles[id]]
    /\ UNCHANGED <<gkind, gtemps, gcalls, GetRest>>

\* Delete by someone: the name is gone, a file that is open stays readable
GetDelete ==
    /\ gname # 0
    /\ gname' = 0
    /\ UNCHANGED <<gkind, gfiles, gtemps, gcalls, GetRest>>

\* first step of Get: filesystem opens the file itself and is done; the
\* others ask the vendor for the stream, and all but qiniu return its error
GetOpen(c) ==
    /\ gcalls[c].pc = "idle"
    /\ gcalls' = [gcalls EXCEPT ![c] =
           IF gkind = "filesystem"
           THEN IF gname = 0 THEN [NoGet EXCEPT !.pc = "done", !.err = TRUE]
                ELSE [NoGet EXCEPT !.pc = "done", !.file = gname, !.stored = TRUE,
                                   !.expected = gfiles[gname]]
           ELSE IF gname = 0
                THEN IF gkind = "qiniu"
                     THEN [NoGet EXCEPT !.pc = "streaming", !.stream = qiniu_NotFoundBody,
                                        !.expected = qiniu_NotFoundBody]
                     ELSE [NoGet EXCEPT !.pc = "done", !.err = TRUE]
                ELSE [NoGet EXCEPT !.pc = "streaming", !.stream = gfiles[gname],
                                   !.stored = TRUE, !.expected = gfiles[gname]]]
    /\ UNCHANGED <<gkind, gname, gfiles, gtemps, GetRest>>

\* second step of Get: TempFile, io.Copy, Seek(0, 0), return
Finished(c, fault, out) ==
    /\ out.made => Cardinality(DOMAIN gfiles) < MaxFiles
    /\ gfiles' = IF out.made
                 THEN [id \in DOMAIN gfiles \cup {FreeFile} |->
                          IF id = FreeFile THEN out.content ELSE gfiles[id]]
                 ELSE gfiles
    /\ gtemps' = IF out.made THEN gtemps \cup {FreeFile} ELSE gtemps
    /\ gcalls' = [gcalls EXCEPT ![c] =
           [@ EXCEPT !.pc = "done", !.err = out.err, !.pos = out.pos,
                     !.fault = fault,
                     !.made = IF out.made THEN FreeFile ELSE 0,
                     !.file = IF out.returned THEN FreeFile ELSE 0]]
    /\ UNCHANGED <<gkind, gname, GetRest>>

GetCopy(c) ==
    /\ gcalls[c].pc = "streaming"
    /\ \E fault \in Faults : Finished(c, fault, Get_copy(gkind, gcalls[c].stream, fault))

ReadToEnd(call, bytes) ==
    [call EXCEPT !.got = <<SubSeq(bytes, call.pos + 1, Len(bytes))>>,
                 !.pos = Len(bytes)]

\* the caller reads the file it was given from its offset to the end
GetRead(c) ==
    /\ gcalls[c].pc = "done" /\ gcalls[c].file # 0 /\ gcalls[c].got = <<>>
    /\ gcalls' = [gcalls EXCEPT ![c] = ReadToEnd(gcalls[c], gfiles[gcalls[c].file])]
    /\ UNCHANGED <<gkind, gname, gfiles, gtemps, GetRest>>

GetNext ==
    \/ GetPut
    \/ GetDelete
    \/ \E c \in Callers : GetOpen(c)
    \/ \E c \in Callers : GetCopy(c)
    \/ \E c \in Callers : GetRead(c)

SpecGet == GetInit /\ [][GetNext]_vars

(***************************************************************************)
(* SpecPut: two writers Put to one key from readers that may fail part-way *)
(* while others look at the key.  filesystem Put takes steps: os.Create,   *)
(* then io.Copy one piece at a time at the writer's own offset.  A cloud   *)
(* Put is one request, which the vendor stores whole or not at all.        *)
(***************************************************************************)
Writers == {1, 2}

PutContents == {"xy", "ab"}

OldContent == "o"

\* the most observations kept
MaxSeen == 2

NoPut == [pc |-> "idle", data |-> "", failing |-> FALSE, yields |-> 0,
          off |-> 0, err |-> FALSE]

\* the bytes a reader hands out before it fails
Yielded(put) == SubSeq(put.data, 1, put.yields)

PutDone(put, err) == [put EXCEPT !.pc = "done", !.err = err]

\* Put of a cloud backend from a reader that may fail.  s3 and azureblob read
\* everything first and overwrite the error of ioutil.ReadAll with the result
\* of the upload; qiniu returns the error of ReadAll; synology and googlecloud
\* return the error of io.Copy before the request is sent or closed; aliyun,
\* tencent and huawei hand the reader to the vendor's client, whose request
\* fails.
cloud_Put(kind, file, put) ==
    IF put.failing
    THEN IF kind \in {"s3", "azureblob"}
         THEN [file |-> <<Yielded(put)>>, put |-> PutDone(put, FALSE)]
         ELSE [file |-> file, put |-> PutDone(put, TRUE)]
    ELSE [file |-> <<put.data>>, put |-> PutDone(put, FALSE)]

Zeros(n) == IF n <= 0 THEN "" ELSE IF n = 1 THEN "0" ELSE "00"

\* write(2) of one byte at an offset: bytes before a hole read as zero
WriteAt(bytes, off, b) ==
    IF Len(bytes) < off
    THEN bytes \o Zeros(off - Len(bytes)) \o b
    ELSE SubSeq(bytes, 1, off) \o b \o SubSeq(bytes, off + 2, Len(bytes))

PutInit ==
    /\ wkind \in Backends
    /\ wfile \in {<<>>, <<OldContent>>}
    /\ wput = [w \in Writers |-> NoPut]
    /\ wseen = <<>>
    /\ backend = wkind /\ Config = <<>> /\ store = <<>> /\ dirs = {} /\ last = <<>>
    /\ nkind = "" /\ ncfg = <<>> /\ nshape = "" /\ nhost = "" /\ ntail = ""
    /\ nin = "" /\ nout = <<>>
    /\ pkind = "" /\ pstored = 0 /\ plisted = <<>>
    /\ URLIdle /\ GetIdle /\ MoreIdle

PutRest == <<normVars, opVars, pageVars, urlVars, getVars, moreVars>>

Started(data, failing, yields) ==
    [NoPut EXCEPT !.pc = "copying", !.data = data, !.failing = failing,
                  !.yields = yields]

\* Put is called: a cloud backend sends its request, filesystem creates or
\* truncates the file
PutCall(w, put) ==
    /\ wput[w].pc = "idle"
    /\ IF wkind = "filesystem"
       THEN /\ wfile' = <<"">>
            /\ wput' = [wput EXCEPT ![w] = put]
       ELSE /\ wfile' = cloud_Put(wkind, wfile, put).file
            /\ wput' = [wput EXCEPT ![w] = cloud_Put(wkind, wfile, put).put]
    /\ UNCHANGED <<wkind, wseen, PutRest>>

PutStart(w) ==
    \E data \in PutContents :
        \/ PutCall(w, Started(data, FALSE, Len(data)))
        \/ \E yields \in 0..(Len(data) - 1) : PutCall(w, Started(data, TRUE, yields))

\* io.Copy moves one piece from the reader into the file
PutCopy(w) ==
    /\ wput[w].pc = "copying" /\ wput[w].off < wput[w].yields
    /\ wfile' = <<WriteAt(wfile[1], wput[w].off,
                          SubSeq(wput[w].data, wput[w].off + 1, wput[w].off + 1))>>
    /\ wput' = [wput EXCEPT ![w].off = @ + 1]
    /\ UNCHANGED <<wkind, wseen, PutRest>>

\* the reader is at its end or fails: Put returns the result of io.Copy
PutReturn(w) ==
    /\ wput[w].pc = "copying" /\ wput[w].off = wput[w].yields
    /\ wput' = [wput EXCEPT ![w] = PutDone(@, @.failing)]
    /\ UNCHANGED <<wkind, wfile, wseen, PutRest>>

\* a Get, GetStream or List by someone else
PutObserve ==
    /\ Len(wseen) < MaxSeen
    /\ wseen' = Append(wseen, wfile)
    /\ UNCHANGED <<wkind, wfile, wput, PutRest>>

PutNext ==
    \/ \E w \in Writers : PutStart(w)
    \/ \E w \in Writers : PutCopy(w)
    \/ \E w \in Writers : PutReturn(w)
    \/ PutObserve

SpecPut == PutInit /\ [][PutNext]_vars

(***************************************************************************)
(* SpecObject: a caller Puts and Lists, keeps one of the Objects it was    *)
(* handed, or makes an Object itself, and calls Object.Get on it; the      *)
(* calls are also made with the empty path.                                *)
(***************************************************************************)
ObjContents == {"xy", "z"}

\* every path a Put or Get of SpecObject is given
ObjPaths == {Build(shape, EndpointHost, key) : shape \in KeyShapes, key \in Keys}
                \cup {""}

\* oss.Object: StorageInterface is the backend, "nil" if the field is unset;
\* Key is the vendor's name of what the Object was made for
Object(path, key, storage) == [Path |-> path, Key |-> key, StorageInterface |-> storage]

NoObject == Object("", "", "nil")

\* func (object Object) Get(): the method of a nil interface value panics
Object_Get(object, cfg, st, ds) ==
    IF object.StorageInterface = "nil"
    THEN Outcome(st, ds, "panic", "", "", {})
    ELSE StorageInterface_Get(object.StorageInterface, cfg, st, ds, object.Path)

\* the Path of the Object a Put returns: s3 and azureblob have overwritten
\* urlPath with its relative path, qiniu takes the key of the vendor's answer
Put_ObjectPath(kind, cfg, path, vkey) ==
    CASE kind = "s3" -> s3_ToRelativePath(cfg, path)
      [] kind = "azureblob" -> azureblob_ToRelativePath(path)
      [] kind = "qiniu" -> vkey
      [] OTHER -> path

\* the name under which the vendor holds what a Put sent
StoredUnder(o) == IF o.vkey \in DOMAIN o.st THEN o.vkey ELSE filepath_Clean(o.vkey)

ObjCall(op, path, object, o) ==
    [op |-> op, path |-> path, object |-> object, status |-> o.status,
     content |-> o.content, objects |-> o.objects]

ObjInit ==
    /\ okind \in Backends
    /\ ocfg \in Configs(okind)
    /\ ostore = <<>>
    /\ odirs = (IF okind = "filesystem" THEN {"/", ocfg.Base} ELSE {})
    /\ oheld = <<>>
    /\ ocall = ObjCall("none", "", NoObject, Outcome(<<>>, {}, "", "", "", {}))
    /\ CoreIdle /\ URLIdle /\ GetIdle /\ PutIdle
    /\ CliIdle /\ BatchIdle /\ FSIdle

ObjRest == <<normVars, opVars, pageVars, urlVars, getVars, putVars,
             cliVars, batchVars, fsVars>>

ObjPutReturned(path, o) ==
    /\ Cardinality(DOMAIN o.st) <= MaxObjects
    /\ ostore' = o.st
    /\ odirs' = o.ds
    /\ ocall' = ObjCall("Put", path, NoObject, o)
    /\ oheld' = IF o.status = "ok"
                THEN <<Object(Put_ObjectPath(okind, ocfg, path, o.vkey),
                              StoredUnder(o), okind)>>
                ELSE oheld
    /\ UNCHANGED <<okind, ocfg, ObjRest>>

ObjPut ==
    \E path \in ObjPaths, c \in ObjContents :
        ObjPutReturned(path,
            StorageInterface_Put(okind, ocfg, ostore, odirs, path,
                                 [data |-> c, pos |-> 0, seekable |-> TRUE]))

ObjListReturned(path, o) ==
    /\ ocall' = ObjCall("List", path, NoObject, o)
    /\ IF o.objects = {} THEN UNCHANGED oheld
       ELSE \E x \in o.objects : oheld' = <<Object(x.Path, x.Key, okind)>>
    /\ UNCHANGED <<okind, ocfg, ostore, odirs, ObjRest>>

ObjList ==
    \E path \in Prefixes :
        ObjListReturned(path, StorageInterface_List(okind, ocfg, ostore, odirs, path))

ObjGet ==
    /\ \E path \in ObjPaths :
           ocall' = ObjCall("Get", path, NoObject,
                            StorageInterface_Get(okind, ocfg, ostore, odirs, path))
    /\ UNCHANGED <<okind, ocfg, ostore, odirs, oheld, ObjRest>>

\* the caller makes an Object of its own, the backend field unset
ObjMake ==
    /\ \E key \in Keys : oheld' = <<Object("/" \o key, "", "nil")>>
    /\ UNCHANGED <<okind, ocfg, ostore, odirs, ocall, ObjRest>>

ObjectGet ==
    /\ oheld # <<>>
    /\ ocall' = ObjCall("Object.Get", oheld[1].Path, oheld[1],
                        Object_Get(oheld[1], ocfg, ostore, odirs))
    /\ UNCHANGED <<okind, ocfg, ostore, odirs, oheld, ObjRest>>

ObjNext == ObjPut \/ ObjList \/ ObjGet \/ ObjMake \/ ObjectGet

SpecObject == ObjInit /\ [][ObjNext]_vars

(***************************************************************************)
(* SpecClient: the fields of one client and the methods called on it by    *)
(* two callers.  A method with a value receiver works on a copy of the     *)
(* client taken when it is called, and what it assigns to the copy's own   *)
(* fields is lost; Config is a pointer, shared by every copy.  The vendor's *)
(* answer to a request is drawn when the method returns.                   *)
(***************************************************************************)
ContractOps == {"Get", "GetStream", "Put", "Delete", "List", "GetURL", "GetEndpoint"}

\* the methods of a client
Methods(kind) ==
    ContractOps \cup (IF kind = "qiniu" THEN {"SetPutPolicy"}
                      ELSE IF kind = "synology" THEN {"Login"} ELSE {})

\* func (client *Client) for Login and Put of synology, func (client Client)
\* for every other method
Receiver(kind, op) ==
    IF kind = "synology" /\ op \in {"Login", "Put"} THEN "pointer" ELSE "value"

Policies == {"p1"}

\* storage.PutPolicy{Scope: "<bucket>:<key>"}
qiniu_DefaultPolicy(key) == BucketName \o ":" \o key

\* what the vendor answers: no answer at all, a status other than 200, 200
\* with "success": false, 200 with "success": true (and for a login the
\* session it opened)
Answer(kind, sid, token) == [kind |-> kind, sid |-> sid, token |-> token]

Answers ==
    {Answer(k, "", "") : k \in {"neterr", "500", "rejected"}}
        \cup {Answer("ok", "s1", "t1")}

\* what a method body did: the client as it left its receiver, what it
\* returned, whether it sent a request, and the policy an upload was signed
\* with
Ran(self, status, sent, policy) ==
    [self |-> self, status |-> status, sent |-> sent, policy |-> policy]

\* Login: with a session it skips the request and getErrorCode reads
\* "success" from a nil map, whose type assertion panics; a status other
\* than 200 returns the nil err of http.Get; a login the station rejects
\* clears SId and returns nil
synology_Login(self, answer) ==
    IF ~self.Config.SessionExpire /\ self.SId # ""
    THEN Ran(self, "panic", FALSE, "")
    ELSE CASE answer.kind = "neterr" -> Ran(self, "error", TRUE, "")
           [] answer.kind = "500" -> Ran(self, "ok", TRUE, "")
           [] answer.kind = "rejected" -> Ran([self EXCEPT !.SId = ""], "ok", TRUE, "")
           [] OTHER ->
                  Ran([self EXCEPT !.SId = answer.sid, !.SynoToken = answer.token,
                                   !.Config.SessionExpire = FALSE],
                      "ok", TRUE, "")

\* Delete: a status other than 200 returns the nil err of http.Get, and the
\* decoded answer is not looked at
synology_DeleteAnswered(self, answer) ==
    Ran(self, IF answer.kind = "neterr" THEN "error" ELSE "ok", TRUE, "")

\* List: a status other than 200 returns nil, nil; an answer without "data"
\* fails the type assertion
synology_ListAnswered(self, answer) ==
    Ran(self,
        CASE answer.kind = "neterr" -> "error"
          [] answer.kind = "rejected" -> "panic"
          [] OTHER -> "ok",
        TRUE, "")

\* Put of synology reads Config, SynoToken and SId and assigns none of them;
\* a status other than 200 is an error
synology_PutAnswered_relogin(self, answer) ==
    Ran([self EXCEPT !.SId = answer.sid], "ok", TRUE, "")

synology_PutAnswered(self, answer) ==
    Ran(self, IF answer.kind \in {"neterr", "500"} THEN "error" ELSE "ok", TRUE, "")

\* SetPutPolicy assigns the field of its receiver
qiniu_SetPutPolicy(self, putPolicy) ==
    Ran([self EXCEPT !.putPolicy = putPolicy], "ok", FALSE, "")

\* Put of qiniu signs the upload with client.putPolicy if that is not nil,
\* with the default policy otherwise
qiniu_PutAnswered(self, key, answer) ==
    Ran(self, IF answer.kind = "ok" THEN "ok" ELSE "error", TRUE,
        IF self.putPolicy # "nil" THEN self.putPolicy ELSE qiniu_DefaultPolicy(key))

\* the body of a method
Body(kind, op, self, arg, answer) ==
    CASE kind = "synology" /\ op = "Login" -> synology_Login(self, answer)
      [] kind = "synology" /\ op = "Delete" -> synology_DeleteAnswered(self, answer)
      [] kind = "synology" /\ op = "List" -> synology_ListAnswered(self, answer)
      [] kind = "synology" /\ op = "Put" -> synology_PutAnswered(self, answer)
      [] kind = "qiniu" /\ op = "SetPutPolicy" -> qiniu_SetPutPolicy(self, arg)
      [] kind = "qiniu" /\ op = "Put" -> qiniu_PutAnswered(self, arg, answer)
      [] OTHER -> Ran(self, IF answer.kind = "ok" \/ op \in {"GetURL", "GetEndpoint"}
                            THEN "ok" ELSE "error",
                      op \notin {"GetURL", "GetEndpoint"}, "")

\* the client after the method: a pointer receiver is the client itself, a
\* value receiver shares only what Config points to
AfterCall(kind, op, shared, self) ==
    IF Receiver(kind, op) = "pointer" THEN self
    ELSE [shared EXCEPT !.Config = self.Config]

NoMethod == [pc |-> "idle", op |-> "", arg |-> "", self |-> <<>>, hist |-> ""]

NoReturn == [op |-> "none", arg |-> "", status |-> "", sent |-> FALSE, policy |-> "",
             answer |-> Answer("", "", ""), before |-> <<>>, after |-> <<>>,
             hist |-> ""]

CliInit ==
    /\ ckind \in Backends
    /\ client \in [Config : [Bucket : {BucketName}, Endpoint : {EndpointHost},
                             SessionExpire : IF ckind = "synology" THEN BOOLEAN
                                             ELSE {FALSE}],
                   SId : {""}, SynoToken : {""}, putPolicy : {"nil"}]
    /\ ccalls = [c \in Callers |-> NoMethod]
    /\ chist = ""
    /\ clast = NoReturn
    /\ CoreIdle /\ URLIdle /\ GetIdle /\ PutIdle
    /\ ObjIdle /\ BatchIdle /\ FSIdle

CliRest == <<normVars, opVars, pageVars, urlVars, getVars, putVars,
             objVars, batchVars, fsVars>>

\* the policy of SetPutPolicy, the key of Put
Arguments(op) ==
    IF op = "SetPutPolicy" THEN Policies
    ELSE IF op = "Put" /\ ckind = "qiniu" THEN Keys ELSE {""}

\* a method is called: a value receiver is copied now
CliCall(c) ==
    /\ ccalls[c].pc = "idle"
    /\ \E op \in Methods(ckind) :
           \E arg \in Arguments(op) :
               ccalls' = [ccalls EXCEPT ![c] =
                             [pc |-> "running", op |-> op, arg |-> arg,
                              self |-> client, hist |-> chist]]
    /\ UNCHANGED <<ckind, client, chist, clast, CliRest>>

CliReturned(c, call, answer, before, ran) ==
    /\ client' = AfterCall(ckind, call.op, client, ran.self)
    /\ chist' = IF call.op = "SetPutPolicy" THEN call.arg ELSE chist
    /\ clast' = [op |-> call.op, arg |-> call.arg, status |-> ran.status,
                 sent |-> ran.sent, policy |-> ran.policy, answer |-> answer,
                 before |-> IF call.op = "Login" THEN before ELSE <<>>,
                 after |-> IF call.op = "Login" THEN ran.self ELSE <<>>,
                 hist |-> call.hist]
    /\ ccalls' = [ccalls EXCEPT ![c] = NoMethod]
    /\ UNCHANGED <<ckind, CliRest>>

CliRun(c, call, answer, before) ==
    CliReturned(c, call, answer, before, Body(ckind, call.op, before, call.arg, answer))

\* what the method's receiver names while it runs: the client itself, or
\* the copy with the Config that the client's pointer still leads to
ReceiverOf(call) ==
    IF Receiver(ckind, call.op) = "pointer" THEN client
    ELSE [call.self EXCEPT !.Config = client.Config]

\* the method runs and returns
CliReturn(c) ==
    /\ ccalls[c].pc = "running"
    /\ \E answer \in Answers : CliRun(c, ccalls[c], answer, ReceiverOf(ccalls[c]))

\* the caller marks the session of its synology Config as expired
CliExpire ==
    /\ ckind = "synology" /\ ~client.Config.SessionExpire
    /\ client' = [client EXCEPT !.Config.SessionExpire = TRUE]
    /\ UNCHANGED <<ckind, ccalls, chist, clast, CliRest>>

CliNext ==
    \/ \E c \in Callers : CliCall(c)
    \/ \E c \in Callers : CliReturn(c)
    \/ CliExpire

SpecClient == CliInit /\ [][CliNext]_vars

(***************************************************************************)
(* SpecBatch: Put, Delete and DeleteObjects on one s3 bucket.  The vendor  *)
(* answers a multi-object delete with status 200 and lists in the answer   *)
(* the keys it could not delete; a request it rejects as a whole is an     *)
(* error of the call.                                                      *)
(***************************************************************************)
BatchKeys == {"d/a", "d//a"}

BatchShapes == {"bare", "slash", "https", "bucket"}

BatchPaths == {Build(shape, EndpointHost, key) : shape \in BatchShapes, key \in BatchKeys}

\* the most paths in one DeleteObjects call
MaxBatch == 2

BatchLists == UNION {[1..n -> BatchPaths] : n \in 1..MaxBatch}

BatchContent == "xy"

\* obj.Key of DeleteObjects: it travels in the body of the request, as it is
s3_DeleteObjectsKey(cfg, path) == strings_TrimPrefix(s3_ToRelativePath(cfg, path), "/")

\* client.S3.DeleteObjects: err is nil unless the request as a whole fails;
\* the keys listed as failed in the answer stay stored
s3_DeleteObjects(cfg, st, paths, failed, rejected) ==
    IF rejected
    THEN Outcome(st, {}, "error", "", "", {})
    ELSE Outcome([k \in DOMAIN st \ ({s3_DeleteObjectsKey(cfg, paths[i]) : i \in DOMAIN paths}
                                       \ failed) |-> st[k]],
                 {}, "ok", "", "", {})

BatchCall(op, paths, failed, rejected, o) ==
    [op |-> op, paths |-> paths, failed |-> failed, rejected |-> rejected,
     status |-> o.status, vkey |-> o.vkey]

BatchInit ==
    /\ bcfg \in Configs("s3")
    /\ bstore = <<>>
    /\ bcall = BatchCall("none", <<>>, {}, FALSE, Outcome(<<>>, {}, "", "", "", {}))
    /\ CoreIdle /\ URLIdle /\ GetIdle /\ PutIdle
    /\ ObjIdle /\ CliIdle /\ FSIdle

BatchRest == <<normVars, opVars, pageVars, urlVars, getVars, putVars,
               objVars, cliVars, fsVars>>

BatchReturned(op, paths, failed, rejected, o) ==
    /\ Cardinality(DOMAIN o.st) <= MaxObjects
    /\ bstore' = o.st
    /\ bcall' = BatchCall(op, paths, failed, rejected, o)
    /\ UNCHANGED <<bcfg, BatchRest>>

BatchPut ==
    \E path \in BatchPaths :
        BatchReturned("Put", <<path>>, {}, FALSE,
                      s3_Put(bcfg, bstore, path,
                             [data |-> BatchContent, pos |-> 0, seekable |-> TRUE]))

BatchDelete ==
    \E path \in BatchPaths :
        BatchReturned("Delete", <<path>>, {}, FALSE, s3_Delete(bcfg, bstore, path))

\* the keys of the request that the vendor can refuse one by one
Sent(paths) == {s3_DeleteObjectsKey(bcfg, paths[i]) : i \in DOMAIN paths}

BatchDeleteObjects ==
    \E paths \in BatchLists :
        \/ BatchReturned("DeleteObjects", paths, {}, TRUE,
                         s3_DeleteObjects(bcfg, bstore, paths, {}, TRUE))
        \/ \E failed \in SUBSET (Sent(paths) \cap DOMAIN bstore) :
               BatchReturned("DeleteObjects", paths, failed, FALSE,
                             s3_DeleteObjects(bcfg, bstore, paths, failed, FALSE))

BatchNext == BatchPut \/ BatchDelete \/ BatchDeleteObjects

SpecBatch == BatchInit /\ [][BatchNext]_vars

(***************************************************************************)
(* SpecFS: the filesystem backend on a machine that has files outside its  *)
(* Base directory; the keys include ".." segments and keys whose text      *)
(* begins with the text of Base.                                           *)
(***************************************************************************)
\* FileSystem{Base: absbase}
FSConfig == [Base |-> "/r"]

FSKeys == {"a", "/r/a", "../x", "/rx", "/r/../x", ".."}

FSContents == {"xy", "z"}

\* a file of the machine that is not the backend's
OutsideFile == "/x"

FSCall(op, key, before, o) ==
    [op |-> op, key |-> key, before |-> before, fullpath |-> o.vkey,
     status |-> o.status, content |-> o.content, objects |-> o.objects]

FSInit ==
    /\ fstore \in {<<>>, [f \in {OutsideFile} |-> "s"]}
    /\ fdirs = {"/", FSConfig.Base}
    /\ fcall = FSCall("none", "", <<>>, Outcome(<<>>, {}, "", "", "", {}))
    /\ CoreIdle /\ URLIdle /\ GetIdle /\ PutIdle
    /\ ObjIdle /\ CliIdle /\ BatchIdle

FSRest == <<normVars, opVars, pageVars, urlVars, getVars, putVars,
            objVars, cliVars, batchVars>>

FSReturned(op, key, o) ==
    /\ Cardinality(DOMAIN o.st) <= MaxObjects
    /\ fstore' = o.st
    /\ fdirs' = o.ds
    /\ fcall' = FSCall(op, key, fstore, o)
    /\ UNCHANGED FSRest

FSPut ==
    \E key \in FSKeys, c \in FSContents :
        FSReturned("Put", key,
                   filesystem_Put(FSConfig, fstore, fdirs, key,
                                  [data |-> c, pos |-> 0, seekable |-> TRUE]))

FSGet ==
    \E key \in FSKeys :
        FSReturned("Get", key, filesystem_Get(FSConfig, fstore, fdirs, key))

FSGetStream ==
    \E key \in FSKeys :
        FSReturned("GetStream", key, filesystem_GetStream(FSConfig, fstore, fdirs, key))

FSDelete ==
    \E key \in FSKeys :
        FSReturned("Delete", key, filesystem_Delete(FSConfig, fstore, fdirs, key))

FSList ==
    \E key \in FSKeys :
        FSReturned("List", key, filesystem_List(FSConfig, fstore, fdirs, key))

FSNext == FSPut \/ FSGet \/ FSGetStream \/ FSDelete \/ FSList

SpecFS == FSInit /\ [][FSNext]_vars

(***************************************************************************)
(* Properties of the normalizers, checked under SpecNorm.                  *)
(***************************************************************************)
\* a key in canonical form: not empty, no leading slash, no empty segment
CanonicalKey(k) ==
    k # "" /\ ~strings_HasPrefix(k, "/") /\ ~strings_Contains(k, "//")

\* the places where p has two slashes in a row
SlashPairs(p) == {i \in 1..(Len(p) - 1) : SubSeq(p, i, i + 1) = "//"}

\* p has no "//" except the one that follows a leading scheme: a bare key,
\* a leading-slash key, or scheme://host/key
AcceptedShape(p) ==
    \/ SlashPairs(p) = {}
    \/ /\ ~getScheme(p, 1).err
       /\ getScheme(p, 1).scheme # ""
       /\ SlashPairs(p) = {Len(getScheme(p, 1).scheme) + 2}

\* the normalizers that strip one leading slash
Trimmers == {"aliyun", "tencent", "azureblob", "huawei", "qiniu"}

\* C2: for aliyun, azureblob and qiniu, every canonical key given bare, with
\* a leading slash, or as https://, http:// or // URL on any endpoint host
\* normalizes to that key.
C2_NormalizerEquivalence ==
    (/\ nkind \in {"aliyun", "azureblob", "qiniu"}
     /\ nshape \in {"bare", "slash", "https", "http", "schemeless"}
     /\ CanonicalKey(ntail)
     /\ Len(nout) >= 1)
    => nout[1] = ntail

C5_S3Idempotent ==
    (nkind = "s3" /\ Len(nout) = 2) => nout[2] = nout[1]

\* C6: with S3ForcePathStyle, for a key whose first segment is not the bucket
\* name, the forms <key>, /<key>, /<bucket>/<key> and
\* https://<host>/<bucket>/<key> normalize to the same key as <key> does,
\* that key does not begin with the bucket segment, and a URL whose first
\* segment only begins with the bucket name keeps that segment whole.
C6_PathStyle ==
    (/\ nkind = "s3" /\ ncfg.S3ForcePathStyle
     /\ CanonicalKey(ntail)
     /\ CutBefore(ntail, "/") # ncfg.Bucket
     /\ Len(nout) >= 1)
    => /\ nshape \in {"bare", "slash", "bucket", "httpsbucket"}
              => /\ nout[1] = s3_ToRelativePath(ncfg, ntail)
                 /\ ~strings_HasPrefix(nout[1], "/" \o ncfg.Bucket \o "/")
       /\ nshape \in {"https", "http"}
              => strings_HasSuffix(nout[1], "/" \o ntail)

(***************************************************************************)
(* Properties of the contract calls, checked under Spec.                   *)
(***************************************************************************)
CloudBackends == {"aliyun", "tencent", "huawei", "qiniu", "s3"}

\* C1: on every backend, a Get that follows a successful Put of fresh
\* content under the same bare or leading-slash key succeeds and returns
\* exactly that content.
C1_RoundTrip ==
    (/\ last.op = "Get" /\ last.afterPut
     /\ last.shape \in {"bare", "slash"}
     /\ last.putReader.pos = 0)
    => /\ last.status = "ok"
       /\ last.content = last.putReader.data

\* C3: on tencent, huawei and googlecloud, Put, Get, GetStream and Delete
\* hand the vendor the bare key whether the key came bare, with a leading
\* slash or as https://<endpoint>/<key>.
C3_SameVendorKey ==
    (/\ backend \in {"tencent", "huawei", "googlecloud"}
     /\ last.op \in {"Put", "Get", "GetStream", "Delete"})
    => last.vkey = last.key

\* C7: on every backend, a successful Put of a seekable content uploads the
\* whole content wherever its read position stood.
C7_PutRewinds ==
    (last.op = "Put" /\ last.status = "ok" /\ last.reader.seekable)
    => last.content = last.reader.data

\* C8: on aliyun, tencent, huawei, qiniu and s3, List of "d/", "/d/" or "d"
\* returns exactly the stored objects whose canonical key starts with the
\* normalized prefix.
C8_ListByNormalizedPrefix ==
    (/\ backend \in CloudBackends
     /\ last.op = "List"
     /\ last.path \in {"d/", "/d/", "d"})
    => /\ last.status = "ok"
       /\ {o.Key : o \in last.objects} =
              {k \in DOMAIN store :
                  strings_HasPrefix(Normalize(backend, Config, k),
                                    Normalize(backend, Config, last.path))}

\* the key of a file: its path relative to Base
filesystem_Key(cfg, f) == strings_TrimPrefix(f, cfg.Base \o "/")

\* C9: on the filesystem backend, List returns exactly the stored files
\* whose key starts with the prefix as a string, each under its key
\* relative to Base.
C9_ListByStringPrefix ==
    (backend = "filesystem" /\ last.op = "List")
    => /\ {o.Key : o \in last.objects} =
              {f \in DOMAIN store :
                  strings_HasPrefix(filesystem_Key(Config, f),
                                    strings_TrimPrefix(last.path, "/"))}
       /\ \A o \in last.objects :
              strings_TrimPrefix(o.Path, "/") = filesystem_Key(Config, o.Key)

\* the backends whose vendor answers the delete of a missing key with success
\* (synology: Delete returns nil whatever the station answers)
MissingKeyIsNoOp == {"aliyun", "tencent", "huawei", "s3", "synology"}

AbsentKey ==
    /\ last.vkey \notin DOMAIN store
    /\ filepath_Clean(last.vkey) \notin DOMAIN store

\* C15: on every backend, Get and GetStream of a key that is not stored
\* return an error and no file or stream, never a success whose file holds
\* the vendor's error response.
C15_GetOfAbsentKeyFails ==
    (last.op \in {"Get", "GetStream"} /\ AbsentKey)
    => last.status = "error" /\ last.content = ""

\* C20: List on any backend, azureblob included, returns a sequence of
\* Objects or an error and never aborts the caller.
C20_ListReturns ==
    last.op = "List" => last.status \in {"ok", "error"}

(***************************************************************************)
(* Properties of GetURL and GetEndpoint, checked under SpecURL.            *)
(***************************************************************************)
\* the client is configured for public access
PublicAccess(kind, config) ==
    \/ kind \in {"tencent", "filesystem", "azureblob", "googlecloud"}
    \/ kind = "aliyun" /\ config.ACL # "private"
    \/ kind = "s3" /\ config.ACL = "public-read"
    \/ kind = "qiniu" /\ ~config.PrivateURL

\* the client is configured for private access
PrivateAccess(kind, config) ==
    \/ kind = "aliyun" /\ config.ACL = "private"
    \/ kind = "s3" /\ config.ACL \in {"private", "authenticated-read"}
    \/ kind = "qiniu" /\ config.PrivateURL

\* the normalized form of a path; a filesystem path has no other form
NormalizedPath(kind, config, path) ==
    IF kind \in NormKinds THEN Normalize(kind, config, path) ELSE path

\* C12: on every backend configured for public access, GetURL of a non-empty
\* path in any shape returns without error the normalized path, not a string
\* with scheme and host put before it.
C12_PublicURLIsNormalizedPath ==
    (/\ ucall.op = "GetURL" /\ ucall.path # ""
     /\ PublicAccess(ukind, ucfg))
    => /\ ~ucall.result.err
       /\ ucall.result.url = NormalizedPath(ukind, ucfg, ucall.path)

\* C13: on every backend configured private, GetURL of a non-empty path
\* returns a signed URL that differs from the path and expires 3600 seconds
\* after the call, whatever else is configured.
C13_PrivateURLIsSigned ==
    (/\ ucall.op = "GetURL" /\ ucall.path # ""
     /\ PrivateAccess(ukind, ucfg))
    => /\ ~ucall.result.err
       /\ ucall.result.signed
       /\ ucall.result.url # ucall.path
       /\ ucall.result.window = 3600

\* C14: on every backend, GetEndpoint returns exactly the endpoint the caller
\* configured whenever one is configured.
C14_ConfiguredEndpointWins ==
    (ucall.op = "GetEndpoint" /\ uopts.Endpoint # "")
    => ucall.result = uopts.Endpoint

(***************************************************************************)
(* Properties of List on a growing bucket, checked under SpecPage.         *)
(***************************************************************************)
\* C10: List returns every object under the prefix, however many the bucket
\* holds.
C10_ListDrainsPages ==
    Len(plisted) = 1 => plisted[1] = 1..pstored

(***************************************************************************)
(* Properties of Get taken step by step, checked under SpecGet.            *)
(***************************************************************************)
FailedAfterTempFile(c) ==
    gcalls[c].pc = "done" /\ gcalls[c].err /\ gcalls[c].made # 0

\* C16: on every cloud backend, when Get has made its temporary file and the
\* copy of the stream or the rewind then fails, the temporary file is removed
\* before Get returns: it is not among the temporary files afterwards.
C16_FailedGetLeavesNoTempFile ==
    \A c \in Callers :
        (gkind # "filesystem" /\ FailedAfterTempFile(c))
        => gcalls[c].made \notin gtemps

GotWhole(c) ==
    /\ gcalls[c].pc = "done" /\ gcalls[c].stored /\ gcalls[c].fault = "none"

\* C18: two Get calls on one key, in any interleaving, each return a resource
\* of their own that is a private temporary copy at offset 0 of the content
\* stored when Get ran; what is read from it is that content, whatever the
\* other caller read and whatever Put or Delete did to the key afterwards.
C18_ConcurrentGetPrivateCopies ==
    /\ \A c \in Callers :
           GotWhole(c) => /\ ~gcalls[c].err
                          /\ gcalls[c].file \in gtemps
                          /\ gcalls[c].got \in {<<>>, <<gcalls[c].expected>>}
    /\ (GotWhole(1) /\ GotWhole(2)) => gcalls[1].file # gcalls[2].file

(***************************************************************************)
(* Properties of Put taken step by step, checked under SpecPut.            *)
(***************************************************************************)
\* the key holds a beginning of the content and not all of it
Truncated(file, data) ==
    /\ file # <<>>
    /\ Len(file[1]) < Len(data)
    /\ file[1] = SubSeq(data, 1, Len(file[1]))

PutAlone(w) ==
    wput[w].pc = "done" /\ \A v \in Writers \ {w} : wput[v].pc = "idle"

\* C17: a Put that ran alone either reports success with exactly its content
\* stored at the key, or reports an error with no truncated content at the
\* key; a reader that fails part-way gives the second outcome.
C17_PutAllOrNothing ==
    \A w \in Writers :
        PutAlone(w) =>
            /\ ~wput[w].err => wfile = <<wput[w].data>>
            /\ wput[w].err => ~Truncated(wfile, wput[w].data)
            /\ wput[w].failing => wput[w].err

SoundReaders == \A w \in Writers : ~wput[w].failing

WholeStates == {<<>>, <<OldContent>>} \cup {<<c>> : c \in PutContents}

\* C19: on filesystem, with readers that do not fail, whoever looks at the key
\* while Put calls run finds the state before them or the complete content of
\* one of them, and when two Put calls have returned the key holds the
\* content of exactly one of them.
C19_FilesystemPutAtomic ==
    (wkind = "filesystem" /\ SoundReaders) =>
        /\ \A i \in 1..Len(wseen) : wseen[i] \in WholeStates
        /\ (\A w \in Writers : wput[w].pc = "done")
               => \E w \in Writers : wfile = <<wput[w].data>>

(***************************************************************************)
(* Properties of Objects and of the empty path, checked under SpecObject.  *)
(***************************************************************************)
\* C21: Object.Get on an Object whose StorageInterface is nil returns an
\* error and does not crash; on an Object with a backend it returns what the
\* backend's Get of the Object's Path returns.
C21_ObjectGetFailsCleanly ==
    ocall.op = "Object.Get" =>
        IF ocall.object.StorageInterface = "nil"
        THEN ocall.status = "error"
        ELSE /\ ocall.status =
                    StorageInterface_Get(okind, ocfg, ostore, odirs, ocall.object.Path).status
             /\ ocall.content =
                    StorageInterface_Get(okind, ocfg, ostore, odirs, ocall.object.Path).content

\* C24: for every Object returned by List or by a successful Put, the
\* StorageInterface is the backend that made it and Object.Get retrieves the
\* content stored under the key the Object was made for.
C24_ObjectsRedispatch ==
    /\ (oheld # <<>> /\ oheld[1].StorageInterface # "nil")
           => oheld[1].StorageInterface = okind
    /\ (ocall.op = "Object.Get" /\ ocall.object.StorageInterface # "nil")
           => /\ ocall.status = "ok"
              /\ ocall.object.Key \in DOMAIN ostore
              /\ ocall.content = ostore[ocall.object.Key]

\* C26: the empty input normalizes to the empty key; Get and Put of the empty
\* path return an error; List of the empty path returns every stored object.
C26_EmptyPath ==
    /\ (ocall.op \in {"Get", "Put", "List"} /\ ocall.path = "" /\ okind \in NormKinds)
           => Normalize(okind, ocfg, "") = ""
    /\ (ocall.op \in {"Get", "Put"} /\ ocall.path = "") => ocall.status = "error"
    /\ (ocall.op = "List" /\ ocall.path = "")
           => /\ ocall.status = "ok"
              /\ {x.Key : x \in ocall.objects} = DOMAIN ostore

(***************************************************************************)
(* Properties of the client's fields, checked under SpecClient.            *)
(***************************************************************************)
Refused == clast.sent /\ clast.answer.kind \in {"500", "rejected"}

\* C22: on synology, when the request of Delete, List or Login is answered
\* with a status other than 200 or with "success": false, the method returns
\* an error.
C22_SynologyFailuresSurface ==
    (ckind = "synology" /\ clast.op \in {"Delete", "List", "Login"} /\ Refused)
    => clast.status = "error"

ContractReturn(c) ==
    /\ ccalls[c].pc = "running" /\ ccalls[c].op \in ContractOps
    /\ ccalls'[c].pc = "idle"

\* C25: no step in which one of the seven contract operations returns, on
\* any backend and whatever the other caller is in the middle of, changes
\* the Config or any other field of the client.
C25_OperationsKeepClient ==
    [][(\E c \in Callers : ContractReturn(c)) => client' = client]_vars

C25_Witness ==
    /\ ckind = "synology" /\ clast.op = "Put" /\ clast.status = "ok"
    /\ client.SId # ""
    /\ \E c \in Callers : ccalls[c].pc = "running" /\ ccalls[c].op = "Delete"

\* C27: a Put of qiniu called after SetPutPolicy(p) returned signs its upload
\* with p; a Put called before any SetPutPolicy signs with the default policy
\* of its bucket and key.
C27_SetPutPolicyTakesEffect ==
    (ckind = "qiniu" /\ clast.op = "Put")
    => clast.policy = IF clast.hist # "" THEN clast.hist
                      ELSE qiniu_DefaultPolicy(clast.arg)

HadSession == clast.before.SId # "" /\ ~clast.before.Config.SessionExpire

\* C28: Login on a client that holds a session sends no request, keeps SId
\* and SynoToken and returns nil; in every other state an accepted login
\* sets SId and SynoToken from the answer and SessionExpire to false, and a
\* rejected login leaves SId empty.
C28_LoginKeepsSession ==
    clast.op = "Login" =>
        IF HadSession
        THEN /\ clast.status = "ok" /\ ~clast.sent
             /\ clast.after.SId = clast.before.SId
             /\ clast.after.SynoToken = clast.before.SynoToken
        ELSE /\ clast.status # "panic"
             /\ clast.answer.kind = "ok"
                    => /\ clast.after.SId = clast.answer.sid
                       /\ clast.after.SynoToken = clast.answer.token
                       /\ ~clast.after.Config.SessionExpire
             /\ clast.answer.kind = "rejected" => clast.after.SId = ""

(***************************************************************************)
(* Properties of the s3 deletes, checked under SpecBatch.                  *)
(***************************************************************************)
\* C23: DeleteObjects returns an error whenever the deletion of at least one
\* of its keys failed, and returns nil only when none of its keys is stored
\* any more.
C23_BatchDeleteAggregatesErrors ==
    bcall.op = "DeleteObjects" =>
        /\ (bcall.rejected \/ bcall.failed # {}) => bcall.status = "error"
        /\ bcall.status = "ok" => Sent(bcall.paths) \cap DOMAIN bstore = {}

\* C30: for every path and both addressing modes, the key DeleteObjects sends
\* for the path is the key Delete sends, which is the key Put stored under;
\* after either delete of the path has succeeded, nothing is stored under the
\* key of Put.
C30_BatchAndSingleDeleteAgree ==
    /\ (bcall.op = "DeleteObjects" /\ Len(bcall.paths) = 1)
           => /\ s3_DeleteObjectsKey(bcfg, bcall.paths[1])
                     = s3_Delete(bcfg, bstore, bcall.paths[1]).vkey
              /\ s3_Delete(bcfg, bstore, bcall.paths[1]).vkey
                     = s3_Put(bcfg, bstore, bcall.paths[1], NoReader).vkey
    /\ (bcall.op = "Delete" /\ bcall.status = "ok")
           => s3_Put(bcfg, bstore, bcall.paths[1], NoReader).vkey \notin DOMAIN bstore
    /\ (bcall.op = "DeleteObjects" /\ Len(bcall.paths) = 1
            /\ bcall.status = "ok" /\ bcall.failed = {})
           => s3_Put(bcfg, bstore, bcall.paths[1], NoReader).vkey \notin DOMAIN bstore

(***************************************************************************)
(* Containment of the filesystem backend, checked under SpecFS.            *)
(***************************************************************************)
\* Base itself or a descendant of it
InsideBase(p) == p = FSConfig.Base \/ Under(p, FSConfig.Base)

Outside(st) == {f \in DOMAIN st : ~InsideBase(f)}

\* C29: for every key, the path that GetFullPath computes names Base or a
\* descendant of Base, and no call reads, lists, writes or removes a file
\* outside Base.
C29_FilesystemContainment ==
    fcall.op # "none" =>
        /\ InsideBase(filepath_Clean(fcall.fullpath))
        /\ Outside(fstore) = Outside(fcall.before)
        /\ \A f \in Outside(fstore) : fstore[f] = fcall.before[f]
        /\ \A x \in fcall.objects : InsideBase(x.Key)

====
